---- MODULE Spec2Model ----
(***************************************************************************)
(* devlog: the snapshot daemon and its control plane.                      *)
(*                                                                         *)
(* The module holds several specifications over one set of variables:      *)
(*   Spec         the connection handlers of a running daemon working on   *)
(*                the watch registry under the reader/writer lock          *)
(*   DuelSpec     two connections, one request each, from any registry     *)
(*   CaptureSpec  takeSnapshot applied to a repository and a log           *)
(*   SaveSpec     saveState step by step, with a crash at any step         *)
(*   StartSpec    several processes running Server.run to start a daemon   *)
(*   SchedSpec    one running daemon: the scheduler over two days and a    *)
(*                connection handler                                       *)
(*   DaemonSpec   one running daemon: a handler, the scheduler, the main   *)
(*                thread and the shutdown                                  *)
(*   BootSpec     offline watch and unwatch on the state file, then the    *)
(*                start of a daemon that loads it                          *)
(*   RestartSpec  a start attempt made alone after an earlier daemon ended *)
(*                or was killed (FairRestartSpec: the attempt is scheduled)*)
(*   RoundTripSpec a registry saved by saveState and read by loadState     *)
(*   ResolveSpec  projectNameForRepo applied to a path, an override and a  *)
(*                registry                                                 *)
(*   StallSpec    the daemon with two connections and a git that may never *)
(*                return                                                   *)
(*   EditSpec     the scheduler while the user edits a repository          *)
(*   RerunSpec    the scheduler of a daemon restarted during the day       *)
(*   EquivSpec    one request given to the offline command and to the      *)
(*                handler of the daemon                                    *)
(***************************************************************************)
EXTENDS Integers, Sequences, FiniteSets, TLC

VARIABLES
    watched,     \* Server.watched: the in-memory registry, a sequence of entries
    stateFile,   \* the durable registry file: <<>> when absent, else <<bytes>>
    mu,          \* Server.mu: [writer |-> conn or 0, readers |-> set of lock holders]
    conn,        \* one record per connection handler goroutine (handleConn)
    prevDiffs,   \* Server.prevDiffs: repository path -> last written diff
    initWatched, \* the registry the daemon loaded at startup (never changes)
    diskFull,    \* the file system refuses writes (saveState then fails)
    req,         \* DuelSpec: the one request each connection will send
    realIndex,   \* the repository's staging area (.git/index): the staged files
    untracked,   \* files of the working tree the staging area does not know
    shadowIndex, \* .git/devlog_shadow_index: the files the shadow index holds
    logFile,     \* the raw log file takeSnapshot appends to
    now,         \* the wall clock: <<hour, minute>>
    cap,         \* the last takeSnapshot call: its arguments and what it returned
    tmpFiles,    \* the state-*.json.tmp file of each process saving the registry
    save,        \* each saving process: its position in saveState and its registry
    pidFile,     \* the PID file: the process id written in it, NoPid when absent
    sockFile,    \* the socket path: the process whose listener is bound to the
                 \* file there, NoPid when absent
    proc,        \* each devlog start process: its position in Server.run
    today,       \* the calendar day of the wall clock: an index in Dates
    lastDate,    \* Server.lastDate
    sched,       \* the snapshotLoop goroutine: its position in takeSnapshots
    repoDiff,    \* repository path -> what git diff HEAD prints for it now
    logs,        \* raw log path -> file
    timer,       \* connection -> the goroutine handleStop started for it
    client       \* the devlog watch or unwatch command run with no daemon to reach

capVars == <<realIndex, untracked, shadowIndex, logFile, now, cap>>

saveVars == <<tmpFiles, save>>

cliVars == <<client>>

runVars == <<pidFile, sockFile, proc>>

dmnVars == <<today, lastDate, sched, repoDiff, logs, timer>>

regVars == <<watched, stateFile, mu, conn, prevDiffs, initWatched, diskFull>>

----------------------------------------------------------------------------
(* Bounds of the model *)

\* longest registry found in durable storage when the daemon starts
MaxInitLen == 1

\* entries of a registry saved and loaded back in RoundTripSpec
MaxRoundTripLen == 2

\* takeSnapshot calls made on the repository of CaptureSpec
MaxCaptures == 2

\* firings of the scheduler in DaemonSpec, the initial one included
MaxFirings == 2

----------------------------------------------------------------------------
(* Values *)

\* A path is the sequence of its segments: /a/x is <<"a", "x">>.
Roots == {<<"a", "x">>, <<"b", "x">>, <<"a", "y">>}

\* Directories a client may name: the repository roots, a directory inside a
\* repository, and a directory that is in no repository.
Dirs == Roots \cup {<<"a", "x", "sub">>, <<"nogit">>}

\* The name override of a watch request; "" is "no override".
NameOverrides == {"", "x", "y"}

\* the connection handler goroutines that may be live at once
Conns == {1, 2}

NoPath == <<>>

IsPrefix(p, q) == Len(p) <= Len(q) /\ SubSeq(q, 1, Len(p)) = p

\* filepath.Base of a cleaned absolute path: its final segment
Base(p) == p[Len(p)]

\* git rev-parse --show-toplevel: the repository root containing dir, NoPath
\* when dir is in no repository (the error return).
resolveRepoRoot(dir) ==
    IF \E r \in Roots : IsPrefix(r, dir)
    THEN CHOOSE r \in Roots : IsPrefix(r, dir) /\
             \A r2 \in Roots : IsPrefix(r2, dir) => Len(r2) <= Len(r)
    ELSE NoPath

WatchEntry(p, n) == [path |-> p, name |-> n]

Range(s) == {s[i] : i \in 1 .. Len(s)}

PathsOf(reg) == {reg[i].path : i \in 1 .. Len(reg)}
NamesOf(reg) == {reg[i].name : i \in 1 .. Len(reg)}

NameUnique(reg) == \A i, j \in 1 .. Len(reg) : reg[i].name = reg[j].name => i = j
PathUnique(reg) == \A i, j \in 1 .. Len(reg) : reg[i].path = reg[j].path => i = j

\* The names an entry found in durable storage may carry.
Names == {Base(r) : r \in Roots} \cup (NameOverrides \ {""})

Entries == {WatchEntry(p, n) : p \in Roots, n \in Names}

RECURSIVE SeqsUpTo(_, _)
SeqsUpTo(S, n) ==
    IF n = 0 THEN {<<>>}
    ELSE LET shorter == SeqsUpTo(S, n - 1)
         IN  shorter \cup {Append(s, e) : s \in shorter, e \in S}

\* The registries that any sequence of watch/unwatch (online or offline) can
\* have left in durable storage: paths and names pairwise distinct.
InitRegistries ==
    {reg \in SeqsUpTo(Entries, MaxInitLen) : NameUnique(reg) /\ PathUnique(reg)}

----------------------------------------------------------------------------
(* state.go: the durable registry file *)

\* A path segment that is not valid UTF-8 (a directory named in Latin-1, the
\* byte 0xE9), and the replacement rune U+FFFD.
InvalidUTF8 == "<E9>"
ReplacementRune == "<U+FFFD>"

\* encoding/json writes a Go string coerced to valid UTF-8: every invalid byte
\* becomes U+FFFD
ToValidUTF8(tok) == IF tok = InvalidUTF8 THEN ReplacementRune ELSE tok

CoercePath(p) == [i \in 1 .. Len(p) |-> ToValidUTF8(p[i])]

\* json.MarshalIndent of State as a sequence of tokens.  A nil slice (the
\* zero State, or a registry emptied by unwatch) is written as null.
RECURSIVE MarshalEntries(_)
MarshalEntries(reg) ==
    IF reg = <<>> THEN <<>>
    ELSE <<"{">> \o CoercePath(reg[1].path)
             \o <<":", ToValidUTF8(reg[1].name), "}">>
             \o MarshalEntries(Tail(reg))

Marshal(reg) ==
    IF reg = <<>> THEN <<"null">>
    ELSE <<"[">> \o MarshalEntries(reg) \o <<"]">>

\* index of the first occurrence of tok in toks, 0 when there is none
RECURSIVE IndexOf(_, _, _)
IndexOf(toks, tok, i) ==
    IF i > Len(toks) THEN 0
    ELSE IF toks[i] = tok THEN i
    ELSE IndexOf(toks, tok, i + 1)

\* json.Unmarshal of the entry list between the brackets:
\* [ok |-> parsed without error, watched |-> the entries]
RECURSIVE UnmarshalEntries(_)
UnmarshalEntries(toks) ==
    IF toks = <<>> THEN [ok |-> TRUE, watched |-> <<>>]
    ELSE LET colon == IndexOf(toks, ":", 1)
         IN  IF toks[1] # "{" \/ colon < 3 \/ Len(toks) < colon + 2
                  \/ toks[colon + 2] # "}"
             THEN [ok |-> FALSE, watched |-> <<>>]
             ELSE LET rest == UnmarshalEntries(SubSeq(toks, colon + 3, Len(toks)))
                      e == WatchEntry(SubSeq(toks, 2, colon - 1), toks[colon + 1])
                  IN  [ok |-> rest.ok,
                       watched |-> IF rest.ok THEN <<e>> \o rest.watched ELSE <<>>]

Unmarshal(data) ==
    IF data = <<"null">> THEN [ok |-> TRUE, watched |-> <<>>]
    ELSE IF Len(data) < 2 \/ data[1] # "[" \/ data[Len(data)] # "]"
    THEN [ok |-> FALSE, watched |-> <<>>]
    ELSE UnmarshalEntries(SubSeq(data, 2, Len(data) - 1))

NoFile == [exists |-> FALSE, data |-> <<>>]
FileOf(data) == [exists |-> TRUE, data |-> data]

\* a state file that is read as if it were not there
loadNothing(file) == [ok |-> TRUE, watched |-> <<>>]

\* loadState: a missing file is the empty registry and no error
loadState(file) ==
    IF ~file.exists THEN [ok |-> TRUE, watched |-> <<>>]
    ELSE Unmarshal(file.data)

\* saveState as one step: the file after a save of reg that succeeded (ok)
\* or failed before the rename.  SaveSpec below takes it step by step.
saveState(file, reg, ok) == IF ok THEN FileOf(Marshal(reg)) ELSE file

----------------------------------------------------------------------------
(* ipc.go: responses *)

NoData == <<>>
NoError == <<>>

IPCResponse(ok, data, error) == [ok |-> ok, data |-> data, error |-> error]

\* the zero IPCResponse
NoResp == IPCResponse(FALSE, NoData, NoError)

\* an error response that also carries a payload
ErrorResponseWithData(msg) == IPCResponse(FALSE, <<"{}">>, msg)

ErrorResponse(msg) == IPCResponse(FALSE, NoData, msg)

\* WatchResponseData marshalled
WatchResponseData(reg) == <<"watched">> \o Marshal(reg)

\* Server.watchedResponse
watchedResponse(reg) == IPCResponse(TRUE, WatchResponseData(reg), NoError)

\* the daemon's process identifier
DaemonPid == 1

\* StatusData marshalled
StatusData(reg, pid) == <<"watched">> \o Marshal(reg) \o <<"pid", ToString(pid)>>

ErrInvalidRequest == <<"invalid request">>
ErrUnknownCommand(cmd) == <<"unknown command", cmd>>
ErrInvalidArgs == <<"invalid args">>
ErrNotARepo(dir) == <<"not a git repository">> \o dir

\* the conflict error without the path of the entry that holds the name
ErrNameConflictBare(name, path) == <<"name conflict", name>>
ErrNameConflict(name, path) == <<"name conflict", name, "is already used by">> \o path

----------------------------------------------------------------------------
(* server.go: the connection handlers *)

\* pc is the handler's position; cmd, root and name are the request while it
\* is being handled; outcome names the return statement that built resp.
IdleConn ==
    [pc |-> "idle", cmd |-> "", root |-> NoPath, name |-> "",
     resp |-> NoResp, outcome |-> "", sent |-> FALSE]

\* the lines a client may send
Commands == {"watch", "unwatch", "status", "bogus"}

\* for _, w := range reg { if w.Path == p ... }: index of the first entry
\* whose path is p, 0 when the loop finds none
RECURSIVE FindPathFrom(_, _, _)
FindPathFrom(reg, p, i) ==
    IF i > Len(reg) THEN 0
    ELSE IF reg[i].path = p THEN i
    ELSE FindPathFrom(reg, p, i + 1)

\* the already-watched check left out
FindPathNever(reg, p) == 0

FindPath(reg, p) == FindPathFrom(reg, p, 1)

\* for _, w := range reg { if w.Name == n ... }: index of the first entry
\* whose name is n, 0 when the loop finds none
RECURSIVE FindNameFrom(_, _, _)
FindNameFrom(reg, n, i) ==
    IF i > Len(reg) THEN 0
    ELSE IF reg[i].name = n THEN i
    ELSE FindNameFrom(reg, n, i + 1)

\* the name-collision check left out
FindNameNever(reg, n) == 0

FindName(reg, n) == FindNameFrom(reg, n, 1)

\* the name override ignored
EffectiveNameOfPath(root, nameOverride) == Base(root)

\* handleWatch lines 179-182: the effective name
EffectiveName(root, nameOverride) ==
    IF nameOverride = "" THEN Base(root) ELSE nameOverride

\* a loop that keeps every entry
RemoveNothing(reg, p) == reg

\* handleUnwatch lines 224-232: the entries kept by the loop
RECURSIVE RemovePath(_, _)
RemovePath(reg, p) ==
    IF reg = <<>> THEN <<>>
    ELSE IF reg[1].path = p THEN RemovePath(Tail(reg), p)
    ELSE <<reg[1]>> \o RemovePath(Tail(reg), p)

\* sync.RWMutex
MuFree == [writer |-> 0, readers |-> {}]

\* a Lock that excludes nobody
CanLockAlways(c) == TRUE

\* a read lock granted whatever the state of the lock
CanRLockAlways(c) == TRUE

CanLock(c) == mu.writer = 0 /\ mu.readers = {}
CanRLock(c) == mu.writer = 0
Unlocked(c) == [mu EXCEPT !.writer = 0]
RUnlocked(c) == [mu EXCEPT !.readers = @ \ {c}]

\* an acceptor that calls handleConn itself instead of starting a goroutine:
\* no connection is accepted while another is being served
AcceptInline(c) ==
    /\ conn[c].pc = "idle"
    /\ \A d \in Conns : conn[d].pc = "idle"
    /\ conn' = [conn EXCEPT ![c].pc = "await"]
    /\ UNCHANGED <<watched, stateFile, mu, prevDiffs, initWatched, diskFull>>

\* acceptLoop: a connection is accepted and handleConn started for it
Accept(c) ==
    /\ conn[c].pc = "idle"
    /\ conn' = [conn EXCEPT ![c].pc = "await"]
    /\ UNCHANGED <<watched, stateFile, mu, prevDiffs, initWatched, diskFull>>

\* handleConn line 137: the client closes without sending a line
Hangup(c) ==
    /\ conn[c].pc = "await"
    /\ conn' = [conn EXCEPT ![c] = IdleConn]
    /\ UNCHANGED <<watched, stateFile, mu, prevDiffs, initWatched, diskFull>>

\* a handler returns resp to handleConn
Respond(cmd, resp, outcome) ==
    [IdleConn EXCEPT !.pc = "respond", !.cmd = cmd, !.resp = resp,
                     !.outcome = outcome]

\* handleConn lines 141-147: a line that is not a JSON request
ReceiveMalformed(c) ==
    /\ conn[c].pc = "await"
    /\ conn' = [conn EXCEPT ![c] =
                   Respond("", ErrorResponse(ErrInvalidRequest), "malformed")]
    /\ UNCHANGED <<watched, stateFile, mu, prevDiffs, initWatched, diskFull>>

\* handleConn lines 149-161 with handleWatch lines 167-182 and handleUnwatch
\* lines 209-218: dispatch, argument parsing and resolution of the path
Receive(c, cmd, argsOk, dir, nm) ==
    /\ conn[c].pc = "await"
    /\ LET root == resolveRepoRoot(dir)
       IN  conn' = [conn EXCEPT ![c] =
              CASE cmd = "status" ->
                     [conn[c] EXCEPT !.pc = "rlock", !.cmd = cmd]
                [] cmd \in {"watch", "unwatch"} /\ ~argsOk ->
                     Respond(cmd, ErrorResponse(ErrInvalidArgs), "badargs")
                [] cmd \in {"watch", "unwatch"} /\ argsOk /\ root = NoPath ->
                     Respond(cmd, ErrorResponse(ErrNotARepo(dir)), "norepo")
                [] cmd = "watch" /\ argsOk /\ root # NoPath ->
                     [conn[c] EXCEPT !.pc = "lock", !.cmd = cmd, !.root = root,
                                     !.name = EffectiveName(root, nm)]
                [] cmd = "unwatch" /\ argsOk /\ root # NoPath ->
                     [conn[c] EXCEPT !.pc = "lock", !.cmd = cmd, !.root = root]
                [] OTHER ->
                     Respond(cmd, ErrorResponse(ErrUnknownCommand(cmd)), "unknown")]
    /\ UNCHANGED <<watched, stateFile, mu, prevDiffs, initWatched, diskFull>>

\* s.mu.Lock() in handleWatch line 184 and handleUnwatch line 220
Lock(c) ==
    /\ conn[c].pc = "lock"
    /\ CanLock(c)
    /\ mu' = [mu EXCEPT !.writer = c]
    /\ conn' = [conn EXCEPT ![c].pc = "locked"]
    /\ UNCHANGED <<watched, stateFile, prevDiffs, initWatched, diskFull>>

\* a handleWatch that appends the entry before it looks for a name collision
watchCheckLate(c) ==
    /\ conn[c].pc = "locked" /\ conn[c].cmd = "watch"
    /\ LET byPath == FindPath(watched, conn[c].root)
           byName == FindName(watched, conn[c].name)
       IN  IF byPath # 0
           THEN /\ conn' = [conn EXCEPT ![c] =
                              Respond("watch", watchedResponse(watched), "already")]
                /\ mu' = Unlocked(c)
                /\ watched' = watched
           ELSE IF byName # 0
           THEN /\ conn' = [conn EXCEPT ![c] = Respond("watch", ErrorResponse(
                              ErrNameConflict(conn[c].name, watched[byName].path)),
                              "conflict")]
                /\ mu' = Unlocked(c)
                /\ watched' = Append(watched, WatchEntry(conn[c].root, conn[c].name))
           ELSE /\ conn' = [conn EXCEPT ![c].pc = "append"]
                /\ mu' = mu
                /\ watched' = watched
    /\ UNCHANGED <<stateFile, prevDiffs, initWatched, diskFull>>

\* a handleWatch that looks for a name collision before it looks for the path
watchCheckNameFirst(c) ==
    /\ conn[c].pc = "locked" /\ conn[c].cmd = "watch"
    /\ LET byPath == FindPath(watched, conn[c].root)
           byName == FindName(watched, conn[c].name)
       IN  IF byName # 0
           THEN /\ conn' = [conn EXCEPT ![c] = Respond("watch", ErrorResponse(
                              ErrNameConflict(conn[c].name, watched[byName].path)),
                              "conflict")]
                /\ mu' = Unlocked(c)
           ELSE IF byPath # 0
           THEN /\ conn' = [conn EXCEPT ![c] =
                              Respond("watch", watchedResponse(watched), "already")]
                /\ mu' = Unlocked(c)
           ELSE /\ conn' = [conn EXCEPT ![c].pc = "append"]
                /\ mu' = mu
    /\ UNCHANGED <<watched, stateFile, prevDiffs, initWatched, diskFull>>

\* handleWatch lines 187-201: the two loops over the registry; a return
\* builds the response and runs the deferred Unlock
watchCheck(c) ==
    /\ conn[c].pc = "locked" /\ conn[c].cmd = "watch"
    /\ LET byPath == FindPath(watched, conn[c].root)
           byName == FindName(watched, conn[c].name)
       IN  IF byPath # 0
           THEN /\ conn' = [conn EXCEPT ![c] =
                              Respond("watch", watchedResponse(watched), "already")]
                /\ mu' = Unlocked(c)
           ELSE IF byName # 0
           THEN /\ conn' = [conn EXCEPT ![c] = Respond("watch", ErrorResponse(
                              ErrNameConflict(conn[c].name, watched[byName].path)),
                              "conflict")]
                /\ mu' = Unlocked(c)
           ELSE /\ conn' = [conn EXCEPT ![c].pc = "append"]
                /\ mu' = mu
    /\ UNCHANGED <<watched, stateFile, prevDiffs, initWatched, diskFull>>

\* handleWatch line 203
watchAppend(c) ==
    /\ conn[c].pc = "append"
    /\ watched' = Append(watched, WatchEntry(conn[c].root, conn[c].name))
    /\ conn' = [conn EXCEPT ![c].pc = "persist"]
    /\ UNCHANGED <<stateFile, mu, prevDiffs, initWatched, diskFull>>

\* handleUnwatch lines 223-237: the loop; with no entry found the registry is
\* reassigned its own entries and the handler returns
unwatchScan(c) ==
    /\ conn[c].pc = "locked" /\ conn[c].cmd = "unwatch"
    /\ IF FindPath(watched, conn[c].root) # 0
       THEN /\ conn' = [conn EXCEPT ![c].pc = "delete"]
            /\ UNCHANGED <<watched, mu>>
       ELSE /\ watched' = RemovePath(watched, conn[c].root)
            /\ conn' = [conn EXCEPT ![c] =
                          Respond("unwatch", watchedResponse(watched'), "absent")]
            /\ mu' = Unlocked(c)
    /\ UNCHANGED <<stateFile, prevDiffs, initWatched, diskFull>>

\* handleUnwatch lines 228 and 233: delete(s.prevDiffs, w.Path), then the
\* registry without the entry
unwatchDelete(c) ==
    /\ conn[c].pc = "delete"
    /\ prevDiffs' = [prevDiffs EXCEPT ![conn[c].root] = <<>>]
    /\ watched' = RemovePath(watched, conn[c].root)
    /\ conn' = [conn EXCEPT ![c].pc = "persist"]
    /\ UNCHANGED <<stateFile, mu, initWatched, diskFull>>

\* Server.persistState: a failed save is logged and otherwise ignored
persistState(c) ==
    /\ conn[c].pc = "persist"
    /\ stateFile' = saveState(stateFile, watched, ~diskFull)
    /\ conn' = [conn EXCEPT ![c].pc = "ret"]
    /\ UNCHANGED <<watched, mu, prevDiffs, initWatched, diskFull>>

\* handleWatch line 206 and handleUnwatch line 240, with the deferred Unlock
mutationReturn(c) ==
    /\ conn[c].pc = "ret"
    /\ conn' = [conn EXCEPT ![c] =
                   Respond(conn[c].cmd, watchedResponse(watched),
                           IF conn[c].cmd = "watch" THEN "added" ELSE "removed")]
    /\ mu' = Unlocked(c)
    /\ UNCHANGED <<watched, stateFile, prevDiffs, initWatched, diskFull>>

\* handleStatus line 244
statusRLock(c) ==
    /\ conn[c].pc = "rlock"
    /\ CanRLock(c)
    /\ mu' = [mu EXCEPT !.readers = @ \cup {c}]
    /\ conn' = [conn EXCEPT ![c].pc = "rlocked"]
    /\ UNCHANGED <<watched, stateFile, prevDiffs, initWatched, diskFull>>

\* handleStatus lines 247-251, with the deferred RUnlock
statusRead(c) ==
    /\ conn[c].pc = "rlocked"
    /\ conn' = [conn EXCEPT ![c] = Respond("status",
                   IPCResponse(TRUE, StatusData(watched, DaemonPid), NoError),
                   "status")]
    /\ mu' = RUnlocked(c)
    /\ UNCHANGED <<watched, stateFile, prevDiffs, initWatched, diskFull>>

\* handleConn lines 163-164: the response line is written to the connection
writeResponse(c) ==
    /\ conn[c].pc = "respond"
    /\ conn' = [conn EXCEPT ![c].pc = "done", ![c].sent = TRUE]
    /\ UNCHANGED <<watched, stateFile, mu, prevDiffs, initWatched, diskFull>>

\* handleConn line 134: the deferred conn.Close(); the goroutine ends
closeConn(c) ==
    /\ conn[c].pc = "done"
    /\ conn' = [conn EXCEPT ![c] = IdleConn]
    /\ UNCHANGED <<watched, stateFile, mu, prevDiffs, initWatched, diskFull>>

\* what a handler does between receiving its request and writing the response
Handle(c) ==
    \/ Lock(c) \/ watchCheck(c) \/ watchAppend(c)
    \/ unwatchScan(c) \/ unwatchDelete(c)
    \/ persistState(c) \/ mutationReturn(c)
    \/ statusRLock(c) \/ statusRead(c)
    \/ writeResponse(c)

\* Server.run lines 87-91 after newServer: the registry is what durable
\* storage holds, the dedup map is empty
RegInit ==
    /\ initWatched \in InitRegistries
    /\ stateFile = IF initWatched = <<>> THEN NoFile ELSE FileOf(Marshal(initWatched))
    /\ watched = loadState(stateFile).watched
    /\ mu = MuFree
    /\ conn = [c \in Conns |-> IdleConn]
    /\ prevDiffs = [p \in Roots |-> <<>>]

----------------------------------------------------------------------------
(* snapshot.go: takeSnapshot *)

\* the files of the working tree that may differ from HEAD, in the order git
\* lists them
Files == <<"a.go", "b.go">>

Whitespace == {" ", "\n", "\t"}

\* strings.TrimSpace on a text given as its sequence of tokens
RECURSIVE TrimLeft(_)
TrimLeft(s) ==
    IF s # <<>> /\ Head(s) \in Whitespace THEN TrimLeft(Tail(s)) ELSE s

RECURSIVE TrimRight(_)
TrimRight(s) ==
    IF s # <<>> /\ s[Len(s)] \in Whitespace
    THEN TrimRight(SubSeq(s, 1, Len(s) - 1)) ELSE s

TrimSpace(s) == TrimRight(TrimLeft(s))

\* the wall clock readings of the model
Times == {<<9, 5>>, <<23, 59>>}

Digits == <<"0", "1", "2", "3", "4", "5", "6", "7", "8", "9">>

\* %02d of a number below 100
Pad2(n) == <<Digits[(n \div 10) + 1], Digits[(n % 10) + 1]>>

\* fmt.Sprintf("=== SNAPSHOT %02d:%02d ===\n", hour, minute)
Header(t) == <<"=== SNAPSHOT ">> \o Pad2(t[1]) \o <<":">> \o Pad2(t[2]) \o <<" ===", "\n">>

\* an entry without the blank line that ends it
BlockWithoutBlankLine(t, diff) == Header(t) \o diff

\* header + diff + "\n"
Block(t, diff) == Header(t) \o diff \o <<"\n">>

\* the staging area git uses when GIT_INDEX_FILE is not set
RealIndexFile == "index"

\* GIT_INDEX_FILE in the environment of the two git commands of takeSnapshot
SnapshotIndexFile == "devlog_shadow_index"

\* git add -A under GIT_INDEX_FILE=indexFile: every file of the working tree
\* that differs from HEAD is entered in that index, and in no other.
gitAddAll(indexFile) ==
    IF indexFile = "devlog_shadow_index"
    THEN [realIndex |-> realIndex, untracked |-> untracked,
          shadowIndex |-> realIndex \cup untracked]
    ELSE [realIndex |-> realIndex \cup untracked, untracked |-> {},
          shadowIndex |-> shadowIndex]

\* git diff --no-color HEAD with the given index: one hunk per file the index
\* knows and that differs from HEAD
RECURSIVE gitDiffFrom(_, _)
gitDiffFrom(index, i) ==
    IF i > Len(Files) THEN <<>>
    ELSE (IF Files[i] \in index THEN <<"diff --git", Files[i], "\n">> ELSE <<>>)
             \o gitDiffFrom(index, i + 1)

gitDiffHead(index) == gitDiffFrom(index, 1)

\* the step of takeSnapshot that fails in a call, "" when none does
Faults == {"", "git add", "git diff", "creating raw dir", "opening log file",
           "writing snapshot"}

\* a failed WriteString may leave the start of the block in the file: nothing
\* or the header's first token
PartialWrites == {0, 1}

\* a capture that writes an entry for an empty diff
SnapshotSkipsNothing(out) == FALSE

\* line 46: nothing to write when the diff is empty or white space
SnapshotSkipsEmpty(out) == TrimSpace(out) = <<>>

\* a capture that never deduplicates
SnapshotDedupNever(out, prevDiff) == FALSE

\* line 51: the diff is byte-identical to the previous one
SnapshotDedup(out, prevDiff) == out = prevDiff

\* a capture that appends what it has before looking at the outcome of git
takeSnapshotEager(out, prevDiff, file, t, fault, k) ==
    [diff |-> out, err |-> fault, log |-> FileOf(file.data \o Block(t, out))]

\* takeSnapshot after the two git commands: out is the output of git diff,
\* file the log file, t the clock, fault the step that fails, k how much of
\* the block a failed write leaves.  Returns the diff, the error and the log.
takeSnapshot(out, prevDiff, file, t, fault, k) ==
    IF fault \in {"git add", "git diff"}
    THEN [diff |-> <<>>, err |-> fault, log |-> file]
    ELSE IF SnapshotSkipsEmpty(out)
    THEN [diff |-> <<>>, err |-> "", log |-> file]
    ELSE IF SnapshotDedup(out, prevDiff)
    THEN [diff |-> out, err |-> "", log |-> file]
    ELSE IF fault = "creating raw dir"
    THEN [diff |-> <<>>, err |-> fault, log |-> file]
    ELSE IF fault = "opening log file"
    THEN [diff |-> <<>>, err |-> fault, log |-> file]
    ELSE IF fault = "writing snapshot"
    THEN [diff |-> <<>>, err |-> fault,
          log |-> FileOf(file.data \o SubSeq(Block(t, out), 1, k))]
    ELSE [diff |-> out, err |-> "", log |-> FileOf(file.data \o Block(t, out))]

\* cap.tree is the set of files that differed from HEAD when the call was made
NoCapture ==
    [calls |-> 0, prevDiff |-> <<>>, fault |-> "", tree |-> {}, diff |-> <<>>,
     err |-> ""]

\* the user edits the working tree: f becomes an untracked file
CreateFile(f) ==
    /\ f \notin realIndex \cup untracked
    /\ untracked' = untracked \cup {f}
    /\ UNCHANGED <<realIndex, shadowIndex, logFile, now, cap>>

\* the user runs git add f
StageFile(f) ==
    /\ f \in untracked
    /\ untracked' = untracked \ {f}
    /\ realIndex' = realIndex \cup {f}
    /\ UNCHANGED <<shadowIndex, logFile, now, cap>>

\* the user commits or discards the change to f
SettleFile(f) ==
    /\ f \in realIndex \cup untracked
    /\ untracked' = untracked \ {f}
    /\ realIndex' = realIndex \ {f}
    /\ UNCHANGED <<shadowIndex, logFile, now, cap>>

\* the clock moves
ClockTick(t) ==
    /\ t # now
    /\ now' = t
    /\ UNCHANGED <<realIndex, untracked, shadowIndex, logFile, cap>>

\* one call takeSnapshot(repoPath, projectName, logFile, prevDiff)
Capture(prevDiff, fault, k) ==
    /\ cap.calls < MaxCaptures
    /\ LET added == IF fault = "git add"
                    THEN [realIndex |-> realIndex, untracked |-> untracked,
                          shadowIndex |-> shadowIndex]
                    ELSE gitAddAll(SnapshotIndexFile)
           out == gitDiffHead(IF SnapshotIndexFile = "devlog_shadow_index"
                              THEN added.shadowIndex ELSE added.realIndex)
           r == takeSnapshot(out, prevDiff, logFile, now, fault, k)
       IN  /\ realIndex' = added.realIndex
           /\ untracked' = added.untracked
           /\ shadowIndex' = added.shadowIndex
           /\ logFile' = r.log
           /\ cap' = [calls |-> cap.calls + 1, prevDiff |-> prevDiff,
                      fault |-> fault, tree |-> realIndex \cup untracked,
                      diff |-> r.diff, err |-> r.err]
    /\ UNCHANGED now

CapParked ==
    /\ realIndex = {} /\ untracked = {} /\ shadowIndex = {}
    /\ logFile = NoFile /\ now = <<9, 5>> /\ cap = NoCapture

----------------------------------------------------------------------------
(* state.go: saveState step by step *)

\* the processes that may be saving the registry: the daemon, an offline client
Savers == {1, 2}

\* registries a process saves
SaveRegistries ==
    {<<>>,
     <<WatchEntry(<<"a", "x">>, "x")>>,
     <<WatchEntry(<<"a", "x">>, "x"), WatchEntry(<<"b", "x">>, "y")>>}

\* File names: 0 is the state file, s > 0 the temporary file of saver s.
StatePath == 0

\* writing straight to the state file
InPlace(s) == StatePath

\* os.CreateTemp(dir, "state-*.json.tmp"): a fresh name in the same directory
TempName(s) == s

FileAt(n) == IF n = StatePath THEN stateFile ELSE tmpFiles[n]

\* the file system after the file named n has become f
PutFile(n, f) ==
    /\ stateFile' = IF n = StatePath THEN f ELSE stateFile
    /\ tmpFiles' = IF n = StatePath THEN tmpFiles ELSE [tmpFiles EXCEPT ![n] = f]

IdleSave == [pc |-> "idle", reg |-> <<>>, err |-> ""]

SaveReturn(s, err) == save' = [save EXCEPT ![s].pc = "idle", ![s].err = err]

\* saveState(State{Watched: reg}) is called; MkdirAll and MarshalIndent
BeginSave(s, reg, ok) ==
    /\ save[s].pc = "idle"
    /\ save' = [save EXCEPT ![s] = IF ok THEN [pc |-> "create", reg |-> reg, err |-> ""]
                                   ELSE [pc |-> "idle", reg |-> reg,
                                         err |-> "creating state dir"]]
    /\ UNCHANGED <<stateFile, tmpFiles>>

\* os.CreateTemp: the temporary file exists, empty
CreateTemp(s, ok) ==
    /\ save[s].pc = "create"
    /\ IF ok
       THEN /\ PutFile(TempName(s), FileOf(<<>>))
            /\ save' = [save EXCEPT ![s].pc = "write"]
       ELSE /\ SaveReturn(s, "creating temp file")
            /\ UNCHANGED <<stateFile, tmpFiles>>

\* tmp.Write(data) puts the bytes in the file one after the other ...
WriteChunk(s) ==
    /\ save[s].pc = "write"
    /\ LET data == Marshal(save[s].reg)
           f == FileAt(TempName(s))
       IN  /\ Len(f.data) < Len(data)
           /\ PutFile(TempName(s), FileOf(Append(f.data, data[Len(f.data) + 1])))
    /\ UNCHANGED save

\* ... and returns when all are written
WriteDone(s) ==
    /\ save[s].pc = "write"
    /\ FileAt(TempName(s)).data = Marshal(save[s].reg)
    /\ save' = [save EXCEPT ![s].pc = "close"]
    /\ UNCHANGED <<stateFile, tmpFiles>>

\* tmp.Write fails: close, remove the temporary file, return the error
WriteFail(s) ==
    /\ save[s].pc = "write"
    /\ PutFile(TempName(s), NoFile)
    /\ SaveReturn(s, "writing temp file")

\* tmp.Close
CloseTemp(s, ok) ==
    /\ save[s].pc = "close"
    /\ IF ok
       THEN /\ save' = [save EXCEPT ![s].pc = "rename"]
            /\ UNCHANGED <<stateFile, tmpFiles>>
       ELSE /\ PutFile(TempName(s), NoFile)
            /\ SaveReturn(s, "closing temp file")

\* os.Rename(tmpName, path): the state file becomes the temporary file in one
\* step, and the temporary name is gone
Rename(s, ok) ==
    /\ save[s].pc = "rename"
    /\ IF ok
       THEN /\ stateFile' = FileAt(TempName(s))
            /\ tmpFiles' = [n \in Savers |-> IF n = TempName(s) THEN NoFile ELSE tmpFiles[n]]
            /\ SaveReturn(s, "")
       ELSE /\ PutFile(TempName(s), NoFile)
            /\ SaveReturn(s, "renaming temp file")

\* the process dies inside saveState: the files stay as they are
CrashSave(s) ==
    /\ save[s].pc \notin {"idle", "crashed"}
    /\ save' = [save EXCEPT ![s].pc = "crashed"]
    /\ UNCHANGED <<stateFile, tmpFiles>>

SaveStep(s) ==
    \/ \E reg \in SaveRegistries, ok \in BOOLEAN : BeginSave(s, reg, ok)
    \/ \E ok \in BOOLEAN : CreateTemp(s, ok) \/ CloseTemp(s, ok) \/ Rename(s, ok)
    \/ WriteChunk(s) \/ WriteDone(s) \/ WriteFail(s)
    \/ CrashSave(s)

SaveParked ==
    /\ tmpFiles = [s \in Savers |-> NoFile]
    /\ save = [s \in Savers |-> IdleSave]

----------------------------------------------------------------------------
(* server.go: Server.run, the life of a daemon process *)

\* the processes that run devlog start; a process id is never used twice
Procs == {1, 2, 3}

NoPid == 0

\* the process id of a daemon that ran before and is gone
StalePid == 2

\* proc[p].pid is the process id run() read in the PID file, sig says that a
\* SIGTERM or SIGINT is waiting in sigCh, done that s.ctx is cancelled
NotStarted == [pc |-> "off", pid |-> NoPid, sig |-> FALSE, done |-> FALSE]

\* a check that takes every process id of a PID file for a live process
isProcessKnown(pid) == pid \in Procs

\* isProcessRunning(pid): signal 0 reaches a live process
isProcessRunning(pid) ==
    pid \in Procs /\ proc[pid].pc \notin {"off", "exited", "crashed"}

\* the process holds an open listener: from net.Listen to listener.Close
Listening(q) == q \in Procs /\ proc[q].pc \in {"load", "running", "closing"}

\* Running: acceptLoop and snapshotLoop are started, run() waits in its select
Running(q) == proc[q].pc = "running"

At(q, pc) == proc' = [proc EXCEPT ![q].pc = pc]

\* devlog start: cmdStart builds the server and calls run()
Launch(q) ==
    /\ proc[q].pc = "off"
    /\ At(q, "readpid")
    /\ UNCHANGED <<pidFile, sockFile>>

\* readPidFile(): an error when there is no file
ReadPid(q) ==
    /\ proc[q].pc = "readpid"
    /\ proc' = [proc EXCEPT ![q].pid = pidFile,
                            ![q].pc = IF pidFile = NoPid THEN "writepid" ELSE "checkpid"]
    /\ UNCHANGED <<pidFile, sockFile>>

\* isProcessRunning(pid): "already running" and return nil, or a stale file
CheckPid(q) ==
    /\ proc[q].pc = "checkpid"
    /\ At(q, IF isProcessRunning(proc[q].pid) THEN "exited" ELSE "rmstale")
    /\ UNCHANGED <<pidFile, sockFile>>

\* os.Remove(pidFilePath()) of the stale PID file
RemoveStalePid(q) ==
    /\ proc[q].pc = "rmstale"
    /\ pidFile' = NoPid
    /\ At(q, "writepid")
    /\ UNCHANGED sockFile

\* os.WriteFile(pidPath, pid); on an error run() returns it; from here on
\* the deferred os.Remove(pidPath) runs on every return
WritePid(q, ok) ==
    /\ proc[q].pc = "writepid"
    /\ pidFile' = IF ok THEN q ELSE pidFile
    /\ At(q, IF ok THEN "statsock" ELSE "exited")
    /\ UNCHANGED sockFile

\* os.Stat(sockPath)
StatSock(q) ==
    /\ proc[q].pc = "statsock"
    /\ At(q, IF sockFile # NoPid THEN "dial" ELSE "listen")
    /\ UNCHANGED <<pidFile, sockFile>>

\* net.Dial("unix", sockPath): answered, "already running" and return nil;
\* refused or no such file, the socket is taken to be stale
DialSock(q) ==
    /\ proc[q].pc = "dial"
    /\ At(q, IF Listening(sockFile) THEN "already" ELSE "rmsock")
    /\ UNCHANGED <<pidFile, sockFile>>

\* os.Remove(sockPath) of the socket taken to be stale
RemoveStaleSock(q) ==
    /\ proc[q].pc = "rmsock"
    /\ sockFile' = NoPid
    /\ At(q, "listen")
    /\ UNCHANGED pidFile

\* net.Listen("unix", sockPath): address in use when the path exists, or
\* another error (ok false); else the socket file is created and bound
Listen(q, ok) ==
    /\ proc[q].pc = "listen"
    /\ IF ok /\ sockFile = NoPid
       THEN sockFile' = q /\ At(q, "load")
       ELSE At(q, "abort") /\ UNCHANGED sockFile
    /\ UNCHANGED pidFile

\* a return after the PID file was written and before the listener exists,
\* with nil after an answered dial ("already") or with the error of
\* net.Listen ("abort"): the deferred os.Remove(pidPath)
AbortRun(q) ==
    /\ proc[q].pc \in {"abort", "already"}
    /\ pidFile' = NoPid
    /\ At(q, "exited")
    /\ UNCHANGED sockFile

\* loadState, signal.Notify, go acceptLoop(), go snapshotLoop()
StartLoops(q) ==
    /\ proc[q].pc = "load"
    /\ At(q, "running")
    /\ UNCHANGED <<pidFile, sockFile>>

\* SIGTERM or SIGINT is delivered to the process and put in sigCh
Signal(q) ==
    /\ Running(q) /\ ~proc[q].sig
    /\ proc' = [proc EXCEPT ![q].sig = TRUE]
    /\ UNCHANGED <<pidFile, sockFile>>

\* the select of run() returns, s.cancel(), return nil
MainWake(q) ==
    /\ Running(q) /\ (proc[q].sig \/ proc[q].done)
    /\ proc' = [proc EXCEPT ![q].done = TRUE, ![q].pc = "closing"]
    /\ UNCHANGED <<pidFile, sockFile>>

\* deferred: listener.Close(), which unlinks the socket path
CloseListener(q) ==
    /\ proc[q].pc = "closing"
    /\ sockFile' = NoPid
    /\ At(q, "unlink")
    /\ UNCHANGED pidFile

\* deferred: os.Remove(sockPath)
RemoveSock(q) ==
    /\ proc[q].pc = "unlink"
    /\ sockFile' = NoPid
    /\ At(q, "rmpid")
    /\ UNCHANGED pidFile

\* deferred: os.Remove(pidPath); run() has returned and the process exits
RemovePid(q) ==
    /\ proc[q].pc = "rmpid"
    /\ pidFile' = NoPid
    /\ At(q, "exited")
    /\ UNCHANGED sockFile

\* the process is killed or the machine loses power: nothing is cleaned up
Crash(q) ==
    /\ proc[q].pc \notin {"off", "exited", "crashed"}
    /\ At(q, "crashed")
    /\ UNCHANGED <<pidFile, sockFile>>

Startup(q) ==
    \/ Launch(q) \/ ReadPid(q) \/ CheckPid(q) \/ RemoveStalePid(q)
    \/ \E ok \in BOOLEAN : WritePid(q, ok) \/ Listen(q, ok)
    \/ StatSock(q) \/ DialSock(q) \/ RemoveStaleSock(q) \/ AbortRun(q)
    \/ StartLoops(q)

Shutdown(q) ==
    MainWake(q) \/ CloseListener(q) \/ RemoveSock(q) \/ RemovePid(q)

RunParked ==
    /\ pidFile = NoPid /\ sockFile = NoPid
    /\ proc = [q \in Procs |-> NotStarted]

----------------------------------------------------------------------------
(* server.go: snapshotLoop, takeSnapshots, handleStop *)

\* time.Now().Format("2006-01-02") on the days the model runs through
Dates == <<"2024-01-15", "2024-01-16">>

\* resolveGitPath with the default template <raw_dir>/<date>/git-<project>.log
resolveGitPath(date, project) == <<"raw", date, "git-", project, ".log">>

LogPaths == {resolveGitPath(Dates[d], n) : d \in 1 .. Len(Dates), n \in Names}

\* what git diff HEAD may print for a repository: nothing, or one hunk
DiffTexts == {gitDiffHead({}), gitDiffHead({"a.go"})}

\* the scheduler as a holder of the read lock
SchedId == 0

\* the daemon serves its one client connection at a time here
DaemonConns == {1}

\* the map left as it is at the date boundary
KeptDiffs == prevDiffs

\* make(map[string]string)
FreshDiffs == [p \in Roots |-> <<>>]

IdleSched ==
    [pc |-> "wait", today |-> "", repos |-> <<>>, i |-> 0, prevDiff |-> <<>>,
     diff |-> <<>>, err |-> "", rolled |-> FALSE, firings |-> 0]

\* snapshotLoop calls takeSnapshots: at once, then on each tick.
\* takeSnapshots line 295: today
SchedFire ==
    /\ sched.pc = "wait" /\ sched.firings < MaxFirings
    /\ sched' = [sched EXCEPT !.pc = "date", !.today = Dates[today],
                              !.firings = @ + 1]
    /\ UNCHANGED <<regVars, today, lastDate, repoDiff, logs, timer>>

\* takeSnapshots lines 297-301: the date boundary, with no lock held
SchedCheckDate ==
    /\ sched.pc = "date"
    /\ IF sched.today # lastDate
       THEN /\ prevDiffs' = FreshDiffs
            /\ lastDate' = sched.today
            /\ sched' = [sched EXCEPT !.pc = "rlock", !.rolled = TRUE]
       ELSE /\ sched' = [sched EXCEPT !.pc = "rlock", !.rolled = FALSE]
            /\ UNCHANGED <<prevDiffs, lastDate>>
    /\ UNCHANGED <<watched, stateFile, mu, conn, initWatched, diskFull, today,
                   repoDiff, logs, timer>>

\* takeSnapshots line 303: s.mu.RLock()
SchedRLock ==
    /\ sched.pc = "rlock" /\ CanRLock(SchedId)
    /\ mu' = [mu EXCEPT !.readers = @ \cup {SchedId}]
    /\ sched' = [sched EXCEPT !.pc = "copy"]
    /\ UNCHANGED <<watched, stateFile, conn, prevDiffs, initWatched, diskFull,
                   today, lastDate, repoDiff, logs, timer>>

\* a scheduler that goes through the registry as it was at startup
SchedCopyStale ==
    /\ sched.pc = "copy"
    /\ mu' = RUnlocked(SchedId)
    /\ sched' = [sched EXCEPT !.pc = "next", !.repos = initWatched, !.i = 1]
    /\ UNCHANGED <<watched, stateFile, conn, prevDiffs, initWatched, diskFull,
                   today, lastDate, repoDiff, logs, timer>>

\* a scheduler that keeps the read lock after copying the registry
SchedCopyHolding ==
    /\ sched.pc = "copy"
    /\ mu' = mu
    /\ sched' = [sched EXCEPT !.pc = "next", !.repos = watched, !.i = 1]
    /\ UNCHANGED <<watched, stateFile, conn, prevDiffs, initWatched, diskFull,
                   today, lastDate, repoDiff, logs, timer>>

\* takeSnapshots lines 304-306: copy the registry, s.mu.RUnlock()
SchedCopy ==
    /\ sched.pc = "copy"
    /\ mu' = RUnlocked(SchedId)
    /\ sched' = [sched EXCEPT !.pc = "next", !.repos = watched, !.i = 1]
    /\ UNCHANGED <<watched, stateFile, conn, prevDiffs, initWatched, diskFull,
                   today, lastDate, repoDiff, logs, timer>>

\* takeSnapshots line 308: the next entry of the copy, or the end of the firing
SchedNext ==
    /\ sched.pc = "next"
    /\ sched' = [sched EXCEPT !.pc = IF sched.i <= Len(sched.repos)
                                     THEN "mapread" ELSE "wait",
                              !.prevDiff = <<>>, !.diff = <<>>, !.err = ""]
    /\ UNCHANGED <<regVars, today, lastDate, repoDiff, logs, timer>>

\* a scheduler that takes the previous diff to be empty
SchedReadNothing ==
    /\ sched.pc = "mapread"
    /\ sched' = [sched EXCEPT !.pc = "capture", !.prevDiff = <<>>]
    /\ UNCHANGED <<regVars, today, lastDate, repoDiff, logs, timer>>

\* takeSnapshots line 309: prevDiff := s.prevDiffs[entry.Path], no lock held
SchedReadPrev ==
    /\ sched.pc = "mapread"
    /\ sched' = [sched EXCEPT !.pc = "capture",
                              !.prevDiff = prevDiffs[sched.repos[sched.i].path]]
    /\ UNCHANGED <<regVars, today, lastDate, repoDiff, logs, timer>>

\* a scheduler that gives up the firing at the first capture that fails
SchedCaptureAbort(fault, k) ==
    /\ sched.pc = "capture"
    /\ LET e == sched.repos[sched.i]
           gitFile == resolveGitPath(sched.today, e.name)
           r == takeSnapshot(repoDiff[e.path], sched.prevDiff, logs[gitFile],
                             now, fault, k)
           record == r.err = "" /\ r.diff # <<>>
       IN  /\ logs' = [logs EXCEPT ![gitFile] = r.log]
           /\ sched' = [sched EXCEPT !.diff = r.diff, !.err = r.err,
                                     !.pc = IF record THEN "mapwrite"
                                            ELSE IF r.err # "" THEN "wait"
                                            ELSE "next",
                                     !.i = IF record THEN @ ELSE @ + 1]
    /\ UNCHANGED <<regVars, today, lastDate, repoDiff, timer>>

\* takeSnapshots lines 310-315: takeSnapshot on the entry; on an error the
\* entry is skipped, on an empty diff nothing is recorded
SchedCapture(fault, k) ==
    /\ sched.pc = "capture"
    /\ LET e == sched.repos[sched.i]
           gitFile == resolveGitPath(sched.today, e.name)
           r == takeSnapshot(repoDiff[e.path], sched.prevDiff, logs[gitFile],
                             now, fault, k)
           record == r.err = "" /\ r.diff # <<>>
       IN  /\ logs' = [logs EXCEPT ![gitFile] = r.log]
           /\ sched' = [sched EXCEPT !.diff = r.diff, !.err = r.err,
                                     !.pc = IF record THEN "mapwrite" ELSE "next",
                                     !.i = IF record THEN @ ELSE @ + 1]
    /\ UNCHANGED <<regVars, today, lastDate, repoDiff, timer>>

\* a scheduler that does not record the diff it has written
SchedStoreNothing ==
    /\ sched.pc = "mapwrite"
    /\ prevDiffs' = prevDiffs
    /\ sched' = [sched EXCEPT !.pc = "next", !.i = @ + 1]
    /\ UNCHANGED <<watched, stateFile, mu, conn, initWatched, diskFull, today,
                   lastDate, repoDiff, logs, timer>>

\* takeSnapshots line 317: s.prevDiffs[entry.Path] = diff, no lock held
SchedStore ==
    /\ sched.pc = "mapwrite"
    /\ prevDiffs' = [prevDiffs EXCEPT ![sched.repos[sched.i].path] = sched.diff]
    /\ sched' = [sched EXCEPT !.pc = "next", !.i = @ + 1]
    /\ UNCHANGED <<watched, stateFile, mu, conn, initWatched, diskFull, today,
                   lastDate, repoDiff, logs, timer>>

\* The scheduler reads or writes the prevDiffs map while a handler is in
\* delete(s.prevDiffs, ...): a data race on a Go map.  Either both accesses
\* complete (the steps above) or the runtime stops the process with "fatal
\* error: concurrent map read and map write", running no deferred call.
RaceCrash ==
    /\ sched.pc \in {"mapread", "mapwrite"}
    /\ \E c \in Conns : conn[c].pc = "delete"
    /\ proc' = [proc EXCEPT ![DaemonPid].pc = "crashed"]
    /\ UNCHANGED <<regVars, pidFile, sockFile, dmnVars>>

\* snapshot.go lines 29-41: exec.Command runs git with no timeout and no
\* context; a git that never exits leaves takeSnapshot, and with it the
\* goroutine of snapshotLoop, waiting in CombinedOutput or Output
SchedHang ==
    /\ sched.pc = "capture"
    /\ sched' = [sched EXCEPT !.pc = "hung"]
    /\ UNCHANGED <<regVars, today, lastDate, repoDiff, logs, timer>>

\* snapshotLoop lines 285-287: the select takes the case <-s.ctx.Done() and
\* the goroutine returns.  When a tick is ready as well the select chooses
\* between the two cases at random, so SchedFire stays possible.
SchedQuit ==
    /\ sched.pc = "wait" /\ proc[DaemonPid].done
    /\ sched' = [sched EXCEPT !.pc = "stopped"]
    /\ UNCHANGED <<regVars, today, lastDate, repoDiff, logs, timer>>

Scheduler ==
    \/ SchedFire \/ SchedCheckDate \/ SchedRLock \/ SchedCopy \/ SchedNext
    \/ SchedReadPrev \/ SchedStore
    \/ \E fault \in Faults, k \in PartialWrites : SchedCapture(fault, k)

\* handleConn line 157 with handleStop: start the goroutine that sleeps 50 ms
\* and cancels, return ok with an empty object
ReceiveStop(c) ==
    /\ conn[c].pc = "await" /\ timer[c] = "none"
    /\ conn' = [conn EXCEPT ![c] =
                   Respond("stop", IPCResponse(TRUE, <<"{}">>, NoError), "stop")]
    /\ timer' = [timer EXCEPT ![c] = "sleeping"]
    /\ UNCHANGED <<watched, stateFile, mu, prevDiffs, initWatched, diskFull, today,
                   lastDate, sched, repoDiff, logs>>

\* the goroutine of handleStop: the sleep is over, s.cancel()
TimerFire(c) ==
    /\ timer[c] = "sleeping"
    /\ timer' = [timer EXCEPT ![c] = "fired"]
    /\ proc' = [proc EXCEPT ![DaemonPid].done = TRUE]
    /\ UNCHANGED <<regVars, pidFile, sockFile, today, lastDate, sched, repoDiff, logs>>

\* midnight passes
DayRollover ==
    /\ today < Len(Dates)
    /\ today' = today + 1
    /\ UNCHANGED <<regVars, lastDate, sched, repoDiff, logs, timer>>

DmnParked ==
    /\ today = 1 /\ lastDate = Dates[1] /\ sched = IdleSched
    /\ repoDiff = [p \in Roots |-> <<>>]
    /\ logs = [f \in LogPaths |-> NoFile]
    /\ timer = [c \in Conns |-> "none"]

----------------------------------------------------------------------------
(* cmd.go: devlog watch and devlog unwatch with no daemon to reach *)

\* the command, idle between two runs; out is how the last run ended
IdleClient ==
    [pc |-> "idle", cmd |-> "", root |-> NoPath, name |-> "", state |-> <<>>,
     out |-> ""]

\* cmdWatch and cmdUnwatch: the repository root is resolved, ipcSend fails
\* with connection refused or no such file (isServerNotRunning), and the
\* command goes on to watchOffline or unwatchOffline
CliOffline(cmd, dir, nm) ==
    /\ client.pc = "idle"
    /\ resolveRepoRoot(dir) # NoPath
    /\ ~Listening(sockFile)
    /\ client' = [IdleClient EXCEPT !.pc = "load", !.cmd = cmd,
                                    !.root = resolveRepoRoot(dir),
                                    !.name = IF cmd = "watch" THEN nm ELSE ""]
    /\ UNCHANGED stateFile

\* watchOffline lines 198-202 and unwatchOffline lines 279-283: loadState, and
\* exit 1 when the file cannot be read or parsed
CliLoad ==
    /\ client.pc = "load"
    /\ LET r == loadState(stateFile)
       IN  client' = IF r.ok
                     THEN [client EXCEPT !.pc = "apply", !.state = r.watched]
                     ELSE [IdleClient EXCEPT !.out = "error"]
    /\ UNCHANGED stateFile

\* a watchOffline without the loop that looks for a name collision
watchOfflineUnchecked(ok) ==
    /\ client.pc = "apply" /\ client.cmd = "watch"
    /\ LET projectName == IF client.name = "" THEN Base(client.root)
                          ELSE client.name
           added == Append(client.state, WatchEntry(client.root, projectName))
       IN  IF FindPath(client.state, client.root) # 0
           THEN /\ client' = [IdleClient EXCEPT !.out = "already"]
                /\ UNCHANGED stateFile
           ELSE /\ stateFile' = saveState(stateFile, added, ok)
                /\ client' = [IdleClient EXCEPT
                                 !.out = IF ok THEN "added" ELSE "error"]

\* watchOffline lines 204-234: already watched, name conflict (exit 1), or
\* append and saveState (exit 1 when it fails)
watchOffline(ok) ==
    /\ client.pc = "apply" /\ client.cmd = "watch"
    /\ LET projectName == IF client.name = "" THEN Base(client.root)
                          ELSE client.name
           added == Append(client.state, WatchEntry(client.root, projectName))
       IN  IF FindPath(client.state, client.root) # 0
           THEN /\ client' = [IdleClient EXCEPT !.out = "already"]
                /\ UNCHANGED stateFile
           ELSE IF FindName(client.state, projectName) # 0
           THEN /\ client' = [IdleClient EXCEPT !.out = "conflict"]
                /\ UNCHANGED stateFile
           ELSE /\ stateFile' = saveState(stateFile, added, ok)
                /\ client' = [IdleClient EXCEPT
                                 !.out = IF ok THEN "added" ELSE "error"]

\* unwatchOffline lines 285-307: not watching, or the list without the entry
\* and saveState (exit 1 when it fails)
unwatchOffline(ok) ==
    /\ client.pc = "apply" /\ client.cmd = "unwatch"
    /\ IF FindPath(client.state, client.root) = 0
       THEN /\ client' = [IdleClient EXCEPT !.out = "absent"]
            /\ UNCHANGED stateFile
       ELSE /\ stateFile' = saveState(stateFile,
                                      RemovePath(client.state, client.root), ok)
            /\ client' = [IdleClient EXCEPT
                             !.out = IF ok THEN "removed" ELSE "error"]

Client ==
    \/ \E cmd \in {"watch", "unwatch"}, dir \in Dirs, nm \in NameOverrides :
           CliOffline(cmd, dir, nm)
    \/ CliLoad
    \/ \E ok \in BOOLEAN : watchOffline(ok) \/ unwatchOffline(ok)

CliParked == client = IdleClient

----------------------------------------------------------------------------
(* Spec: the handlers of a running daemon, any number of requests *)

vars == <<regVars, req, capVars, saveVars, cliVars, runVars, dmnVars>>

NoRequest == [cmd |-> "", argsOk |-> FALSE, dir |-> NoPath, name |-> ""]

RegNext ==
    \E c \in Conns :
        \/ Accept(c) \/ Hangup(c) \/ ReceiveMalformed(c)
        \/ \E cmd \in Commands, argsOk \in BOOLEAN, dir \in Dirs, nm \in NameOverrides :
               Receive(c, cmd, argsOk, dir, nm)
        \/ Handle(c) \/ closeConn(c)

Init ==
    /\ RegInit /\ initWatched = <<>> /\ diskFull = FALSE
    /\ req = [c \in Conns |-> NoRequest]
    /\ CapParked /\ SaveParked /\ CliParked /\ RunParked /\ DmnParked

Next == RegNext /\ UNCHANGED <<req, capVars, saveVars, cliVars, runVars, dmnVars>>

Spec == Init /\ [][Next]_vars

----------------------------------------------------------------------------
(* DuelSpec: the registry found at startup is any valid registry; each       *)
(* connection carries one watch or unwatch request, drawn at the start, and  *)
(* the handlers run in any interleaving.  The disk may be full.              *)

DuelRequests ==
    [cmd : {"watch", "unwatch"}, argsOk : {TRUE}, dir : Dirs, name : NameOverrides]

DuelInit ==
    /\ RegInit
    /\ diskFull \in BOOLEAN
    /\ req \in [Conns -> DuelRequests]
    /\ CapParked /\ SaveParked /\ CliParked /\ RunParked /\ DmnParked

DuelNext ==
    /\ \E c \in Conns :
          \/ Accept(c)
          \/ Receive(c, req[c].cmd, req[c].argsOk, req[c].dir, req[c].name)
          \/ Handle(c)
    /\ UNCHANGED <<req, capVars, saveVars, cliVars, runVars, dmnVars>>

DuelSpec == DuelInit /\ [][DuelNext]_vars

----------------------------------------------------------------------------
(* CaptureSpec: takeSnapshot called again and again on one repository whose  *)
(* working tree and staging area the user changes between the calls; any     *)
(* step of a call may fail.                                                  *)

RegParked ==
    /\ RegInit /\ initWatched = <<>> /\ stateFile = NoFile /\ diskFull = FALSE
    /\ req = [c \in Conns |-> NoRequest]

\* the prevDiff a caller may pass: none, the diff the last call returned, the
\* diff of some state of the repository
PrevDiffs == {<<>>, cap.diff} \cup {gitDiffHead(ix) : ix \in SUBSET Range(Files)}

CaptureInit == RegParked /\ CapParked /\ SaveParked /\ CliParked /\ RunParked /\ DmnParked

CaptureNext ==
    /\ \/ \E f \in Range(Files) : CreateFile(f) \/ StageFile(f) \/ SettleFile(f)
       \/ \E t \in Times : ClockTick(t)
       \/ \E prevDiff \in PrevDiffs, fault \in Faults, k \in PartialWrites :
              Capture(prevDiff, fault, k)
    /\ UNCHANGED <<regVars, req, saveVars, cliVars, runVars, dmnVars>>

CaptureSpec == CaptureInit /\ [][CaptureNext]_vars

----------------------------------------------------------------------------
(* SaveSpec: two processes save registries to the same state file, each      *)
(* through saveState, in any interleaving; any step may fail and a process   *)
(* may die at any step.                                                      *)

SaveInit ==
    /\ initWatched \in SaveRegistries
    /\ stateFile = IF initWatched = <<>> THEN NoFile ELSE FileOf(Marshal(initWatched))
    /\ watched = initWatched
    /\ mu = MuFree
    /\ conn = [c \in Conns |-> IdleConn]
    /\ prevDiffs = [p \in Roots |-> <<>>]
    /\ diskFull = FALSE
    /\ req = [c \in Conns |-> NoRequest]
    /\ CapParked /\ SaveParked /\ CliParked /\ RunParked /\ DmnParked

SaveNext ==
    /\ \E s \in Savers : SaveStep(s)
    /\ UNCHANGED <<watched, mu, conn, prevDiffs, initWatched, diskFull, req, capVars,
                   cliVars, runVars, dmnVars>>

SaveSpec == SaveInit /\ [][SaveNext]_vars

----------------------------------------------------------------------------
(* StartSpec: three processes run devlog start in any interleaving; a        *)
(* running daemon is signalled and shuts down; any process may be killed,    *)
(* leaving its PID file and socket file behind.                              *)

StartInit == RegParked /\ CapParked /\ SaveParked /\ CliParked /\ RunParked /\ DmnParked

StartNext ==
    /\ \E q \in Procs : Startup(q) \/ Signal(q) \/ Shutdown(q) \/ Crash(q)
    /\ UNCHANGED <<regVars, req, capVars, saveVars, cliVars, dmnVars>>

StartSpec == StartInit /\ [][StartNext]_vars

----------------------------------------------------------------------------
(* SchedSpec: one daemon, Running, with two repositories registered: the     *)
(* scheduler fires over two days while a connection handler serves watch     *)
(* and unwatch requests; any step of a capture may fail.                     *)

DaemonRegistry ==
    <<WatchEntry(<<"a", "x">>, "x"), WatchEntry(<<"b", "x">>, "y")>>

\* the process exists: its goroutines take steps
Alive == proc[DaemonPid].pc \in {"running", "closing", "unlink", "rmpid"}

\* the daemon just after run() has started its goroutines
DaemonStarted ==
    /\ initWatched = DaemonRegistry
    /\ stateFile = FileOf(Marshal(initWatched))
    /\ watched = loadState(stateFile).watched
    /\ mu = MuFree
    /\ conn = [c \in Conns |-> IdleConn]
    /\ prevDiffs = [p \in Roots |-> <<>>]
    /\ diskFull = FALSE
    /\ req = [c \in Conns |-> NoRequest]
    /\ CapParked /\ SaveParked /\ CliParked
    /\ pidFile = DaemonPid /\ sockFile = DaemonPid
    /\ proc = [q \in Procs |-> IF q = DaemonPid
                                THEN [NotStarted EXCEPT !.pc = "running"]
                                ELSE NotStarted]
    /\ today = 1 /\ lastDate = Dates[1] /\ sched = IdleSched
    /\ logs = [f \in LogPaths |-> NoFile]
    /\ timer = [c \in Conns |-> "none"]

\* the handler of the one connection, serving watch and unwatch of /a/x
ServeConn(c) ==
    \/ Listening(DaemonPid) /\ Accept(c)
    \/ Hangup(c)
    \/ \E cmd \in {"watch", "unwatch"} : Receive(c, cmd, TRUE, <<"a", "x">>, "")
    \/ Handle(c) \/ closeConn(c)

\* /b/x has uncommitted changes, /a/x has or has not, /a/y is not registered
SchedInit ==
    /\ DaemonStarted
    /\ repoDiff \in [Roots -> DiffTexts]
    /\ repoDiff[<<"b", "x">>] # <<>> /\ repoDiff[<<"a", "y">>] = <<>>

SchedSpecNext ==
    \/ /\ \E c \in DaemonConns : ServeConn(c)
       /\ UNCHANGED <<req, capVars, saveVars, cliVars, runVars, dmnVars>>
    \/ /\ Scheduler \/ DayRollover
       /\ UNCHANGED <<req, capVars, saveVars, cliVars, runVars>>

SchedSpec == SchedInit /\ [][SchedSpecNext]_vars

----------------------------------------------------------------------------
(* DaemonSpec: the same daemon with quiet repositories, so that no capture   *)
(* writes: the handler also serves stop, the goroutine of handleStop cancels *)
(* the context, SIGTERM arrives, and the main goroutine returns, which ends  *)
(* the process and every goroutine with it.                                  *)

DaemonInit ==
    /\ DaemonStarted
    /\ repoDiff = [p \in Roots |-> <<>>]

\* the other lines a client may send: one that is no request, status, a
\* command the daemon does not know, missing arguments, a directory in no
\* repository, a watch of /a/x under the name of /b/x
ServeOther(c) ==
    \/ ReceiveMalformed(c)
    \/ \E cmd \in {"status", "bogus", "watch"}, argsOk \in BOOLEAN,
          dir \in {<<"a", "x">>, <<"nogit">>} : Receive(c, cmd, argsOk, dir, "y")

DaemonNext ==
    \/ /\ Alive
       /\ \E c \in DaemonConns : ServeConn(c) \/ ServeOther(c)
       /\ UNCHANGED <<req, capVars, saveVars, cliVars, runVars, dmnVars>>
    \/ /\ Alive
       /\ \E c \in DaemonConns : ReceiveStop(c)
       /\ UNCHANGED <<req, capVars, saveVars, cliVars, runVars>>
    \/ /\ Alive
       /\ Scheduler \/ SchedQuit
       /\ UNCHANGED <<req, capVars, saveVars, cliVars, runVars>>
    \/ /\ Alive
       /\ RaceCrash \/ \E c \in DaemonConns : TimerFire(c)
       /\ UNCHANGED <<req, capVars, saveVars, cliVars>>
    \/ /\ Signal(DaemonPid) \/ Shutdown(DaemonPid)
       /\ UNCHANGED <<regVars, req, capVars, saveVars, cliVars, dmnVars>>

DaemonSpec == DaemonInit /\ [][DaemonNext]_vars

----------------------------------------------------------------------------
(* BootSpec: with no daemon to reach, the user runs devlog watch and devlog  *)
(* unwatch, which edit the state file; a daemon process is started, loads    *)
(* the file, runs, and is stopped or killed.  A save may fail, and a daemon  *)
(* killed earlier may have left its PID file and its socket file.            *)

\* Server.run in the one daemon process: line 88 puts the registry of the
\* state file in s.watched, a read error being ignored
BootStep(q) ==
    /\ Startup(q)
    /\ watched' = IF proc[q].pc = "load" THEN loadState(stateFile).watched
                  ELSE watched

BootInit ==
    /\ initWatched \in SaveRegistries
    /\ stateFile = IF initWatched = <<>> THEN NoFile ELSE FileOf(Marshal(initWatched))
    /\ watched = <<>>
    /\ mu = MuFree
    /\ conn = [c \in Conns |-> IdleConn]
    /\ prevDiffs = [p \in Roots |-> <<>>]
    /\ diskFull = FALSE
    /\ req = [c \in Conns |-> NoRequest]
    /\ CapParked /\ SaveParked /\ CliParked /\ DmnParked
    /\ \E left \in {NoPid, StalePid} :
          /\ pidFile = left /\ sockFile = left
          /\ proc = [q \in Procs |->
                       IF q = left THEN [NotStarted EXCEPT !.pc = "crashed"]
                       ELSE NotStarted]

BootNext ==
    \/ /\ Client
       /\ UNCHANGED <<watched, mu, conn, prevDiffs, initWatched, diskFull, req,
                      capVars, saveVars, runVars, dmnVars>>
    \/ /\ BootStep(DaemonPid)
       /\ UNCHANGED <<stateFile, mu, conn, prevDiffs, initWatched, diskFull, req,
                      capVars, saveVars, cliVars, dmnVars>>
    \/ /\ Signal(DaemonPid) \/ Shutdown(DaemonPid) \/ Crash(DaemonPid)
       /\ UNCHANGED <<regVars, req, capVars, saveVars, cliVars, dmnVars>>

BootSpec == BootInit /\ [][BootNext]_vars

----------------------------------------------------------------------------

(* RestartSpec: an earlier daemon process starts, runs or fails, and ends or  *)
(* is killed at any step, leaving behind what it leaves; only then is devlog *)
(* start run again, alone, in a file system that accepts its writes.         *)

Ended(q) == proc[q].pc \in {"exited", "crashed"}

\* Server.run in the second process, WriteFile and Listen not failing for
\* lack of space or rights
SecondStart(q) ==
    \/ Launch(q) /\ Ended(StalePid)
    \/ ReadPid(q) \/ CheckPid(q) \/ RemoveStalePid(q) \/ WritePid(q, TRUE)
    \/ StatSock(q) \/ DialSock(q) \/ RemoveStaleSock(q) \/ Listen(q, TRUE)
    \/ StartLoops(q)

RestartInit ==
    RegParked /\ CapParked /\ SaveParked /\ CliParked /\ RunParked /\ DmnParked

RestartNext ==
    /\ \/ Startup(StalePid) \/ Signal(StalePid) \/ Shutdown(StalePid)
       \/ Crash(StalePid)
       \/ SecondStart(DaemonPid) \/ Signal(DaemonPid) \/ Shutdown(DaemonPid)
    /\ UNCHANGED <<regVars, req, capVars, saveVars, cliVars, dmnVars>>

RestartSpec == RestartInit /\ [][RestartNext]_vars

\* the second process is scheduled: a step of its start that can be taken is
\* taken in the end
FairRestartSpec ==
    RestartSpec
        /\ WF_vars(/\ SecondStart(DaemonPid)
                   /\ UNCHANGED <<regVars, req, capVars, saveVars, cliVars,
                                  dmnVars>>)

----------------------------------------------------------------------------

(* RoundTripSpec: saveState of a registry, then loadState, as in            *)
(* TestStateRoundTrip, for registries of up to two entries over three        *)
(* paths, one of them not valid UTF-8, with and without name override.       *)

\* the registries saved: any entries in any order
RoundTripPaths == {<<"a", "x">>, <<"b", "x">>, <<"a", InvalidUTF8>>}

RoundTripEntries ==
    {WatchEntry(p, n) : p \in RoundTripPaths, n \in {"x", "work"}}
        \cup {WatchEntry(p, Base(p)) : p \in RoundTripPaths}

RoundTripRegistries == SeqsUpTo(RoundTripEntries, MaxRoundTripLen)

\* saveState(State{Watched: initWatched})
RtSave ==
    /\ ~stateFile.exists
    /\ stateFile' = saveState(stateFile, initWatched, TRUE)
    /\ UNCHANGED watched

\* loaded, err := loadState()
RtLoad ==
    /\ stateFile.exists
    /\ watched' = loadState(stateFile).watched
    /\ UNCHANGED stateFile

RoundTripInit ==
    /\ initWatched \in RoundTripRegistries
    /\ stateFile = NoFile
    /\ watched = <<>>
    /\ mu = MuFree
    /\ conn = [c \in Conns |-> IdleConn]
    /\ prevDiffs = [p \in Roots |-> <<>>]
    /\ diskFull = FALSE
    /\ req = [c \in Conns |-> NoRequest]
    /\ CapParked /\ SaveParked /\ CliParked /\ RunParked /\ DmnParked

RoundTripNext ==
    /\ RtSave \/ RtLoad
    /\ UNCHANGED <<mu, conn, prevDiffs, initWatched, diskFull, req, capVars,
                   saveVars, cliVars, runVars, dmnVars>>

RoundTripSpec == RoundTripInit /\ [][RoundTripNext]_vars

----------------------------------------------------------------------------

(* ResolveSpec: projectNameForRepo applied to a repository path, a registry  *)
(* and a name override.                                                      *)

\* the name of a path with the registry left out of account
projectNameIgnoringState(repoPath, state, nameOverride) ==
    IF nameOverride # "" THEN nameOverride ELSE Base(repoPath)

\* state.go projectNameForRepo
projectNameForRepo(repoPath, state, nameOverride) ==
    IF nameOverride # "" THEN nameOverride
    ELSE IF FindPath(state, repoPath) # 0
    THEN state[FindPath(state, repoPath)].name
    ELSE Base(repoPath)

\* the call: its arguments are in the record, its result goes to out
ResolveName ==
    /\ client.pc = "idle"
    /\ client' = [client EXCEPT !.pc = "named",
                     !.out = projectNameForRepo(client.root, client.state,
                                                client.name)]

ResolveInit ==
    /\ RegParked /\ CapParked /\ SaveParked /\ RunParked /\ DmnParked
    /\ \E p \in Roots, nm \in NameOverrides, reg \in InitRegistries :
          client = [IdleClient EXCEPT !.root = p, !.name = nm, !.state = reg]

ResolveNext ==
    /\ ResolveName
    /\ UNCHANGED <<regVars, req, capVars, saveVars, runVars, dmnVars>>

ResolveSpec == ResolveInit /\ [][ResolveNext]_vars

----------------------------------------------------------------------------
(* StallSpec: the running daemon with two client connections, each of which  *)
(* may stay silent, send status or send unwatch, and the scheduler, whose    *)
(* git may never return; no other fault.                                     *)

StallScheduler ==
    \/ SchedFire \/ SchedCheckDate \/ SchedRLock \/ SchedCopy \/ SchedNext
    \/ SchedReadPrev \/ SchedStore \/ SchedCapture("", 0)
    \/ SchedHang

StallConn(c) ==
    \/ Listening(DaemonPid) /\ Accept(c)
    \/ Hangup(c)
    \/ \E cmd \in {"status", "unwatch"} : Receive(c, cmd, TRUE, <<"a", "x">>, "")
    \/ Handle(c) \/ closeConn(c)

StallNext ==
    \/ /\ \E c \in Conns : StallConn(c)
       /\ UNCHANGED <<req, capVars, saveVars, cliVars, runVars, dmnVars>>
    \/ /\ StallScheduler
       /\ UNCHANGED <<req, capVars, saveVars, cliVars, runVars>>

StallSpec == SchedInit /\ [][StallNext]_vars

----------------------------------------------------------------------------
(* EditSpec: the running daemon with its two repositories; in /a/x the user *)
(* edits, commits and edits again between the firings of the scheduler, over *)
(* two days, /b/x stays clean; any step of a capture may fail, and a failed  *)
(* write may leave all of the entry but its last byte in the log.            *)

\* what git diff HEAD prints as the user works: nothing, or one of two hunks
EditTexts == {gitDiffHead({}), gitDiffHead({"a.go"}), gitDiffHead({"b.go"})}

\* the user changes the working tree of repository p
Edit(p, d) ==
    /\ repoDiff[p] # d
    /\ repoDiff' = [repoDiff EXCEPT ![p] = d]
    /\ UNCHANGED <<regVars, today, lastDate, sched, logs, timer>>

\* snapshot.go line 68: WriteString fails after the header and the diff have
\* reached the file, the final newline has not
TruncatedCapture ==
    /\ sched.pc = "capture"
    /\ SchedCapture("writing snapshot",
                    Len(Block(now, repoDiff[sched.repos[sched.i].path])) - 1)

EditNext ==
    /\ \/ \E d \in EditTexts : Edit(<<"a", "x">>, d)
       \/ Scheduler \/ TruncatedCapture \/ DayRollover
    /\ UNCHANGED <<req, capVars, saveVars, cliVars, runVars>>

EditSpec == DaemonInit /\ [][EditNext]_vars

----------------------------------------------------------------------------
(* RerunSpec: the daemon has been restarted during the day: the dedup map is *)
(* new, and the log of each repository with uncommitted changes ends with    *)
(* the entry the earlier daemon wrote for them.  /a/x is left as it is, the  *)
(* user goes on editing /b/x.                                                *)

\* the clock when the earlier daemon wrote its last entries
EarlierTime == <<9, 5>>

\* the log the earlier daemon left for a repository whose diff is d
LeftLog(d) == IF d = <<>> THEN NoFile ELSE FileOf(Block(EarlierTime, d))

RerunInit ==
    /\ initWatched = DaemonRegistry
    /\ stateFile = FileOf(Marshal(initWatched))
    /\ watched = loadState(stateFile).watched
    /\ mu = MuFree
    /\ conn = [c \in Conns |-> IdleConn]
    /\ prevDiffs = FreshDiffs
    /\ diskFull = FALSE
    /\ req = [c \in Conns |-> NoRequest]
    /\ CapParked /\ SaveParked /\ CliParked
    /\ pidFile = DaemonPid /\ sockFile = DaemonPid
    /\ proc = [q \in Procs |-> IF q = DaemonPid
                                THEN [NotStarted EXCEPT !.pc = "running"]
                                ELSE NotStarted]
    /\ today = 1 /\ lastDate = Dates[1] /\ sched = IdleSched
    /\ timer = [c \in Conns |-> "none"]
    /\ repoDiff \in [Roots -> EditTexts]
    /\ repoDiff[<<"a", "x">>] # <<>> /\ repoDiff[<<"a", "y">>] = <<>>
    /\ repoDiff[<<"b", "x">>] \in DiffTexts
    /\ logs = [f \in LogPaths |->
                 IF \E e \in Range(DaemonRegistry) :
                        f = resolveGitPath(Dates[1], e.name)
                 THEN LeftLog(repoDiff[(CHOOSE e \in Range(DaemonRegistry) :
                                  f = resolveGitPath(Dates[1], e.name)).path])
                 ELSE NoFile]

RerunNext ==
    /\ \/ \E d \in DiffTexts : Edit(<<"b", "x">>, d)
       \/ Scheduler \/ TruncatedCapture
    /\ UNCHANGED <<req, capVars, saveVars, cliVars, runVars>>

RerunSpec == RerunInit /\ [][RerunNext]_vars

----------------------------------------------------------------------------
(* EquivSpec: one request, watch or unwatch, for any registry, given both to *)
(* the command run with no daemon and to the handler of a daemon that has    *)
(* loaded the same registry.  The command reads the state file, the handler  *)
(* then serves the request to its end, and the command then applies it to    *)
(* what it has read: its step meets the outcome of the handler.  The disk    *)
(* is full for both or for neither; the command is run once.                 *)

EquivInit ==
    /\ RegInit
    /\ diskFull \in BOOLEAN
    /\ \E r \in DuelRequests : req = [c \in Conns |-> r]
    /\ CapParked /\ SaveParked /\ CliParked /\ RunParked /\ DmnParked

EquivNext ==
    \/ /\ client.out = ""
       /\ CliOffline(req[1].cmd, req[1].dir, req[1].name) \/ CliLoad
       /\ UNCHANGED <<watched, mu, conn, prevDiffs, initWatched, diskFull, req,
                      capVars, saveVars, runVars, dmnVars>>
    \/ /\ client.pc = "apply"
       /\ \/ Accept(1)
          \/ Receive(1, req[1].cmd, req[1].argsOk, req[1].dir, req[1].name)
          \/ Handle(1)
       /\ UNCHANGED <<req, capVars, saveVars, cliVars, runVars, dmnVars>>
    \/ /\ conn[1].pc = "done"
       /\ watchOffline(~diskFull) \/ unwatchOffline(~diskFull)
       /\ UNCHANGED <<watched, mu, conn, prevDiffs, initWatched, diskFull, req,
                      capVars, saveVars, runVars, dmnVars>>

EquivSpec == EquivInit /\ [][EquivNext]_vars

----------------------------------------------------------------------------

(* Claims *)

\* C1: from a registry with pairwise distinct names, after any sequence and
\* interleaving of watch and unwatch requests handled by the daemon, no two
\* entries of the in-memory registry share a name.
C1_NameUniqueness == NameUnique(watched)

\* C1 witness: a watch was refused for a name conflict while the registry
\* holds two entries.
C1_Witness ==
    \E c \in Conns : conn[c].outcome = "conflict" /\ conn[c].sent /\ Len(watched) = 2

\* the two requests of C2: watch requests for different paths, neither in the
\* registry, with the same effective name
DuelPair(c1, c2) ==
    LET r1 == resolveRepoRoot(req[c1].dir)
        r2 == resolveRepoRoot(req[c2].dir)
    IN  /\ c1 # c2
        /\ req[c1].cmd = "watch" /\ req[c2].cmd = "watch"
        /\ r1 # NoPath /\ r2 # NoPath /\ r1 # r2
        /\ r1 \notin PathsOf(initWatched) /\ r2 \notin PathsOf(initWatched)
        /\ EffectiveName(r1, req[c1].name) = EffectiveName(r2, req[c2].name)

\* both requests have been answered: one ok, the other a name conflict, and
\* exactly one of the two paths is in the registry
DuelSettled(c1, c2) ==
    LET r1 == resolveRepoRoot(req[c1].dir)
        r2 == resolveRepoRoot(req[c2].dir)
    IN  /\ conn[c1].resp.ok # conn[c2].resp.ok
        /\ \A c \in {c1, c2} :
              ~conn[c].resp.ok => conn[c].resp.error[1] = "name conflict"
        /\ (r1 \in PathsOf(watched)) # (r2 \in PathsOf(watched))

\* C2 as stated: two concurrent watch requests for different unregistered
\* paths with the same effective name: exactly one gets ok=true, the other a
\* name conflict, and the registry then holds exactly one of the two paths.
C2_Original ==
    \A c1, c2 \in Conns :
        (DuelPair(c1, c2) /\ conn[c1].pc = "done" /\ conn[c2].pc = "done")
            => DuelSettled(c1, c2)

\* C2 amended: the same, provided no entry of the registry already uses that
\* effective name.
C2_OneWinner ==
    \A c1, c2 \in Conns :
        (/\ DuelPair(c1, c2)
         /\ EffectiveName(resolveRepoRoot(req[c1].dir), req[c1].name)
                \notin NamesOf(initWatched)
         /\ conn[c1].pc = "done" /\ conn[c2].pc = "done")
            => DuelSettled(c1, c2)

\* C2 witness: such a pair, the name free, both answered, the one that took
\* the lock second refused.
C2_Witness ==
    \E c1, c2 \in Conns :
        /\ DuelPair(c1, c2)
        /\ EffectiveName(resolveRepoRoot(req[c1].dir), req[c1].name)
               \notin NamesOf(initWatched)
        /\ conn[c1].pc = "done" /\ conn[c2].pc = "done"
        /\ conn[c1].outcome = "added" /\ conn[c2].outcome = "conflict"

\* C3: under any interleaving of startup attempts by several processes,
\* stale PID file or stale socket file included, at most one daemon process
\* is Running at any time.
C3_AtMostOneRunning == Cardinality({q \in Procs : Running(q)}) <= 1

\* a step of CaptureSpec that is one takeSnapshot call
CaptureStep == cap'.calls = cap.calls + 1

\* the diff of the working tree from HEAD, untracked files included
TreeDiff == gitDiffHead(realIndex \cup untracked)

\* the call made in this step has captured a diff: both git commands ran
Captured == cap'.fault \notin {"git add", "git diff"}

\* this step repeats the previous call on an unchanged repository, passing
\* the diff that call returned
SecondCapture ==
    /\ cap.calls >= 1 /\ cap.tree = realIndex \cup untracked
    /\ cap'.prevDiff = cap.diff

C6_RealIndexUntouched ==
    [][CaptureStep => (realIndex' = realIndex /\ untracked' = untracked)]_vars

\* C6 witness: a capture has written an entry for a repository with a staged
\* and an untracked file; the shadow index holds both.
C6_Witness ==
    /\ cap.calls >= 1 /\ cap.err = "" /\ cap.diff # <<>> /\ logFile.exists
    /\ realIndex # {} /\ untracked # {}
    /\ shadowIndex = realIndex \cup untracked

\* a step of the scheduler that takes the date boundary
RolloverStep == sched.pc = "date" /\ sched'.pc = "rlock" /\ sched.today # lastDate

\* a step of the scheduler that is the capture of the current entry, in a
\* firing that took the date boundary, the repository's diff not empty
FirstCaptureOfDay ==
    /\ sched.pc = "capture" /\ sched'.pc # "capture"
    /\ sched.rolled
    /\ TrimSpace(repoDiff[sched.repos[sched.i].path]) # <<>>

\* the capture step has appended one entry to the log of the entry and the day
EntryAppended ==
    LET e == sched.repos[sched.i]
        gitFile == resolveGitPath(sched.today, e.name)
    IN  logs'[gitFile] = FileOf(logs[gitFile].data \o Block(now, repoDiff[e.path]))

\* C5 as stated: when the day of a firing differs from the day of the firing
\* before, the dedup state is emptied before any capture of the firing, and
\* for every registered repository with a non-empty diff the first capture of
\* the new day appends a log entry.
C5_Original ==
    /\ [][RolloverStep => prevDiffs' = [p \in Roots |-> <<>>]]_vars
    /\ [][FirstCaptureOfDay => EntryAppended]_vars

\* C5 amended: the same of a first capture that returns without error; one
\* that returns an error appends no complete entry and leaves the dedup state
\* of the repository empty.
C5_RolloverCapture ==
    /\ [][RolloverStep => prevDiffs' = [p \in Roots |-> <<>>]]_vars
    /\ [][FirstCaptureOfDay =>
             /\ sched.prevDiff = <<>>
             /\ sched'.err = "" => EntryAppended
             /\ sched'.err # "" =>
                   (~EntryAppended /\ sched'.pc = "next" /\ prevDiffs' = prevDiffs)]_vars

\* C5 witness: in the firing that took the date boundary a repository's diff,
\* the same text as the entry written the day before, was appended to the log
\* of the new day.
C5_Witness ==
    \E n \in Names, text \in DiffTexts :
        /\ text # <<>> /\ sched.rolled /\ sched.today = Dates[2]
        /\ logs[resolveGitPath(Dates[1], n)] = FileOf(Block(now, text))
        /\ logs[resolveGitPath(Dates[2], n)] = FileOf(Block(now, text))

\* C7: for every stop request, the ok response has been written to the
\* connection when the goroutine started by handleStop cancels the context.
C7_ResponseBeforeCancel ==
    \A c \in Conns :
        timer[c] = "fired" => ~(conn[c].cmd = "stop" /\ ~conn[c].sent)

\* a SIGTERM or a stop command has reached the daemon
ShutdownRequested ==
    proc[DaemonPid].sig \/ \E c \in Conns : timer[c] # "none"

\* C8: once a daemon that was told to shut down is Stopped, neither the
\* socket file nor the PID file exists.
C8_StoppedClean ==
    (ShutdownRequested /\ proc[DaemonPid].pc \in {"exited", "crashed"})
        => (sockFile = NoPid /\ pidFile = NoPid)

\* the state file holds a complete serialisation of a registry
CompleteFile(file) ==
    file.exists =>
        /\ Unmarshal(file.data).ok
        /\ Marshal(Unmarshal(file.data).watched) = file.data

\* C9: at every point of a save, a crash included, the state file holds the
\* complete previous content or the complete new content: every step leaves
\* the file as it was or makes it the whole serialisation of the registry
\* being saved, and what it holds always parses back to what was written.
C9_AtomicSave ==
    /\ [][\/ stateFile' = stateFile
          \/ \E s \in Savers :
                /\ save[s].pc # "idle"
                /\ stateFile' = FileOf(Marshal(save[s].reg))]_vars
    /\ []CompleteFile(stateFile)

\* C9 witness: one process died in the middle of its write, leaving a
\* truncated temporary file, and another has replaced the state file.
C9_Witness ==
    \E s, t \in Savers :
        /\ save[s].pc = "crashed" /\ tmpFiles[s].exists
        /\ tmpFiles[s].data # <<>>
        /\ Len(tmpFiles[s].data) < Len(Marshal(save[s].reg))
        /\ save[t].pc = "idle" /\ save[t].err = "" /\ save[t].reg # initWatched
        /\ stateFile = FileOf(Marshal(save[t].reg))

\* C10: a watch request for a path already in the registry returns ok with the
\* registry unchanged (entries, names and order) and carries it in the
\* response, and no path ever appears in two entries.
C10_IdempotentWatch ==
    /\ [][\A c \in Conns :
            (/\ conn[c].pc = "locked" /\ conn[c].cmd = "watch"
             /\ conn[c].root \in PathsOf(watched)
             /\ conn'[c] # conn[c])
                => /\ watched' = watched
                   /\ conn'[c].pc = "respond"
                   /\ conn'[c].resp = watchedResponse(watched)]_vars
    /\ []PathUnique(watched)

\* C10 witness: a watch for a registered path has been answered ok from the
\* already-watched return, the path still registered.
C10_Witness ==
    \E c \in Conns :
        /\ conn[c].outcome = "already" /\ conn[c].sent /\ conn[c].resp.ok
        /\ Len(watched) = 2

\* the path of the entry of reg that carries the name n
HolderOf(reg, n) == (CHOOSE e \in Range(reg) : e.name = n).path

\* C11: a watch request for a path not in the registry whose effective name
\* is the name of an existing entry is refused with an error that names the
\* path of that entry, and the step that refuses it leaves the registry in
\* memory and the state file as they were.
C11_NameConflictRefused ==
    [][\A c \in Conns :
         (/\ conn[c].pc = "locked" /\ conn[c].cmd = "watch"
          /\ conn[c].root \notin PathsOf(watched)
          /\ conn[c].name \in NamesOf(watched)
          /\ conn'[c] # conn[c])
             => /\ watched' = watched /\ stateFile' = stateFile
                /\ conn'[c].pc = "respond" /\ ~conn'[c].resp.ok
                /\ conn'[c].resp.data = NoData
                /\ conn'[c].resp.error =
                       <<"name conflict", conn[c].name, "is already used by">>
                           \o HolderOf(watched, conn[c].name)]_vars

\* C11 witness: a refusal naming the path of the first entry has been sent,
\* and the state file still holds the registry.
C11_Witness ==
    \E c \in Conns :
        /\ conn[c].outcome = "conflict" /\ conn[c].pc = "done"
        /\ watched # <<>> /\ stateFile = FileOf(Marshal(watched))
        /\ conn[c].resp.error =
               <<"name conflict", watched[1].name, "is already used by">>
                   \o watched[1].path

\* the entry a watch request of connection c asks for: the repository root of
\* its directory, under the override when there is one and under the final
\* segment of the root otherwise
RequestedEntry(c) ==
    LET P == resolveRepoRoot(req[c].dir)
    IN  [path |-> P, name |-> IF req[c].name # "" THEN req[c].name ELSE P[Len(P)]]

\* C12: a watch request for an unregistered path P whose effective name N is
\* used by no entry appends exactly the entry {P, N} at the end of the
\* registry, the entries before it staying as they were and in their order,
\* and its response carries the whole resulting registry.
C12_WatchAppends ==
    [][\A c \in Conns :
         LET e == RequestedEntry(c)
         IN  /\ (/\ conn[c].pc = "locked" /\ conn[c].cmd = "watch"
                 /\ e.path \notin PathsOf(watched)
                 /\ e.name \notin NamesOf(watched)
                 /\ conn'[c] # conn[c])
                    => conn'[c].pc = "append" /\ watched' = watched
             /\ (conn[c].pc = "append" /\ conn'[c] # conn[c])
                    => /\ watched' = watched \o <<e>>
                       /\ SubSeq(watched', 1, Len(watched)) = watched
             /\ (conn[c].pc \in {"persist", "ret"} /\ conn[c].cmd = "watch")
                    => /\ watched' = watched
                       /\ watched[Len(watched)] = e
             /\ (/\ conn[c].pc = "ret" /\ conn[c].cmd = "watch"
                 /\ conn'[c] # conn[c])
                    => /\ conn'[c].pc = "respond"
                       /\ conn'[c].resp =
                              [ok |-> TRUE, error |-> NoError,
                               data |-> <<"watched">> \o Marshal(watched)]]_vars

\* C12 witness: a watch without override has been answered with a registry
\* of two entries whose last is the requested root under its final segment.
C12_Witness ==
    \E c \in Conns :
        /\ conn[c].outcome = "added" /\ conn[c].pc = "done"
        /\ req[c].name = ""
        /\ Len(watched) = 2 /\ watched[2] = RequestedEntry(c)
        /\ watched[2].name = Base(watched[2].path)
        /\ conn[c].resp.data = <<"watched">> \o Marshal(watched)

\* reg without the entries of path p, the others in their order
Without(reg, p) == SelectSeq(reg, LAMBDA e : e.path # p)

C14_DurableMatchesMemory ==
    mu.writer = 0 => loadState(stateFile).watched = watched

\* the registry a state file holds, read from its bytes: the empty registry
\* when there is no file
RegistryIn(file, reg) ==
    IF file.exists THEN file.data = Marshal(reg) ELSE reg = <<>>

\* C15: when the daemon enters Running its registry in memory is what the
\* state file held when it was loaded, the empty registry when there was no
\* file; and an offline watch or unwatch that succeeds leaves a state file
\* with the entry added, or the path removed, and the other entries it read
\* kept in their order, so that a start after it loads exactly that.
C15_LoadedAtStart ==
    [][/\ (proc[DaemonPid].pc = "load" /\ Running(DaemonPid)')
              => RegistryIn(stateFile, watched') /\ stateFile' = stateFile
       /\ (client.pc = "apply" /\ client'.out = "added")
              => \E n \in Names :
                    /\ n = (IF client.name # "" THEN client.name
                            ELSE client.root[Len(client.root)])
                    /\ RegistryIn(stateFile',
                           client.state \o <<[path |-> client.root, name |-> n]>>)
       /\ (client.pc = "apply" /\ client'.out = "removed")
              => RegistryIn(stateFile', Without(client.state, client.root))]_vars

\* C15 witness: the daemon runs with a registry of two entries, the second
\* of them added offline before the start, the state file holding both.
C15_Witness ==
    /\ Running(DaemonPid)
    /\ Len(watched) = 2 /\ Len(initWatched) = 1 /\ watched[1] = initWatched[1]
    /\ RegistryIn(stateFile, watched)
    /\ client.pc = "idle"

C17_OneResponsePerLine ==
    proc[DaemonPid].pc = "exited"
        => \A c \in DaemonConns : conn[c].pc \in {"idle", "await"} \/ conn[c].sent

\* the responses handed to handleConn for writing, written or not yet
Responses == {conn[c].resp : c \in {d \in Conns : conn[d].pc \in {"respond", "done"}}}

\* C18: every response the daemon sends has, with ok false, an error message
\* that is not empty and no data, and, with ok true, data and no error
\* message.
C18_ResponseShape ==
    \A r \in Responses :
        /\ ~r.ok => (r.error # <<>> /\ r.data = <<>>)
        /\ r.ok => (r.data # <<>> /\ r.error = <<>>)

\* C18 witness: the daemon has sent the ok response of stop, and, with the
\* next connection, a refusal.
C18_Witness ==
    \E c \in Conns :
        /\ conn[c].pc = "done" /\ ~conn[c].resp.ok
        /\ conn[c].resp.error # <<>>
        /\ timer[c] # "none"

\* a watch or unwatch handler is inside its critical section
Mutating(d) == conn[d].pc \in {"locked", "append", "delete", "persist", "ret"}

\* C19: a status request returns ok with the daemon's process id and the
\* registry as it stands at the instant of the read, an instant at which no
\* watch or unwatch is part-way through its change, and the handler changes
\* neither the registry in memory, nor the state file, nor the dedup map.
C19_StatusReadsOnly ==
    [][\A c \in Conns :
         /\ (conn[c].pc = "rlocked" /\ conn'[c] # conn[c])
                => /\ conn'[c].pc = "respond"
                   /\ conn'[c].resp =
                          [ok |-> TRUE, error |-> NoError,
                           data |-> <<"watched">> \o Marshal(watched)
                                        \o <<"pid", ToString(DaemonPid)>>]
                   /\ \A d \in Conns : ~Mutating(d)
                   /\ RegistryIn(stateFile, watched)
         /\ (/\ conn[c].cmd = "status" \/ conn'[c].cmd = "status"
             /\ conn'[c] # conn[c])
                => /\ watched' = watched /\ stateFile' = stateFile
                   /\ prevDiffs' = prevDiffs]_vars

\* C19 witness: a status response carrying a registry of two entries has
\* been sent while a watch or unwatch waits for the write lock.
C19_Witness ==
    \E c, d \in Conns :
        /\ conn[c].outcome = "status" /\ conn[c].pc = "done"
        /\ Len(watched) = 2
        /\ conn[c].resp.data = StatusData(watched, DaemonPid)
        /\ conn[d].pc = "lock"

\* the error takeSnapshot returns when git add or git diff fails
ToolErrors == {"git add", "git diff"}

\* C20: when git add or git diff fails in a capture, no entry is appended to
\* any log for that repository in that firing, and its entry in the dedup map
\* stays what it was: the scheduler goes on to the next repository without
\* recording anything.
C20_FailedToolRecordsNothing ==
    [][/\ (sched.pc = "capture" /\ sched'.err \in ToolErrors)
              => /\ logs' = logs /\ prevDiffs' = prevDiffs
                 /\ sched'.pc = "next" /\ sched'.i = sched.i + 1
                 /\ sched'.diff = <<>>
       /\ (sched.pc = "mapwrite" /\ prevDiffs' # prevDiffs)
              => sched.err = ""]_vars

\* C20 witness: the capture of a repository whose diff was logged earlier in
\* the day has just failed in git; the log holds the one entry and the dedup
\* map still holds that diff.
C20_Witness ==
    /\ sched.pc = "next" /\ sched.err \in ToolErrors /\ sched.i > 1
    /\ LET e == sched.repos[sched.i - 1]
       IN  /\ prevDiffs[e.path] # <<>>
           /\ prevDiffs[e.path] = repoDiff[e.path]
           /\ logs[resolveGitPath(sched.today, e.name)]
                  = FileOf(Block(now, repoDiff[e.path]))

\* C21: when the capture of a repository fails, the scheduler goes on to the
\* next entry of its copy of the registry and captures every later entry of
\* the copy; the registry keeps the failing repository, the daemon process
\* stays Running, and the scheduler returns to its wait for the next tick.
C21_FailureSkipsOneRepository ==
    [][/\ (sched.pc = "capture" /\ sched'.err # "")
              => /\ sched'.pc = "next" /\ sched'.i = sched.i + 1
                 /\ sched'.repos = sched.repos
                 /\ watched' = watched /\ stateFile' = stateFile
                 /\ proc' = proc /\ Running(DaemonPid)
       /\ (sched.pc = "next" /\ sched' # sched)
              => /\ sched'.repos = sched.repos /\ sched'.i = sched.i
                 /\ sched'.pc = IF sched.i <= Len(sched.repos)
                                THEN "mapread" ELSE "wait"
       /\ (sched.pc = "mapread" /\ sched' # sched)
              => sched'.pc = "capture" /\ sched'.i = sched.i
       /\ (sched.pc = "wait" /\ sched.firings < MaxFirings)
              => ENABLED SchedFire]_vars

\* C21 witness: in the second firing of the day the scheduler is about to
\* capture again; in the first the capture of /a/x, which has uncommitted
\* changes, failed and left no log, and the capture of /b/x after it wrote.
C21_Witness ==
    /\ sched.firings = 2 /\ sched.pc = "capture" /\ today = 1
    /\ Len(sched.repos) = 2 /\ sched.repos = watched
    /\ repoDiff[sched.repos[1].path] # <<>>
    /\ logs[resolveGitPath(Dates[1], sched.repos[1].name)] = NoFile
    /\ logs[resolveGitPath(Dates[1], sched.repos[2].name)]
           = FileOf(Block(now, repoDiff[sched.repos[2].path]))

\* C22: for every registry R, loading after saving R yields R: the same
\* entries, with the same paths and names, in the same order.  It fails for
\* a path (or name) that is not valid UTF-8: json.Marshal writes U+FFFD for
\* each invalid byte and the registry loaded holds another path.
C22_RoundTrip == [][stateFile.exists => watched' = initWatched]_vars

\* C23: the project name of a path is the name override when there is one;
\* without override, the stored name of the registry entry of that path when
\* the registry has one; otherwise the final segment of the path.
C23_ProjectName ==
    client.pc = "named" =>
        client.out =
            (IF client.name # "" THEN client.name
             ELSE IF \E e \in Range(client.state) : e.path = client.root
             THEN (CHOOSE e \in Range(client.state) : e.path = client.root).name
             ELSE client.root[Len(client.root)])

\* C23 witness: without override, a path registered under a name that is not
\* its final segment has been given its stored name.
C23_Witness ==
    /\ client.pc = "named" /\ client.name = ""
    /\ client.root \in PathsOf(client.state)
    /\ client.out # Base(client.root)

\* HH:MM of the two clock readings, written out
ClockText(t) ==
    IF t = <<9, 5>> THEN <<"0", "9", ":", "0", "5">>
    ELSE <<"2", "3", ":", "5", "9">>

\* the delimiter line, the raw diff, one blank line
Entry(t, diff) ==
    <<"=== SNAPSHOT ">> \o ClockText(t) \o <<" ===", "\n">> \o diff \o <<"\n">>

\* C24 as stated: every capture that writes to the log appends exactly one
\* entry (delimiter line, raw diff, blank line) at its end.
C24_Original ==
    [][(CaptureStep /\ logFile' # logFile)
          => logFile'.data = logFile.data \o Entry(now, TreeDiff)]_vars

\* C24 amended: every capture that returns without error and writes appends
\* exactly one entry at the end of the log; a capture whose write fails may
\* leave the beginning of an entry there; and no capture alters or removes
\* what the log holds: the content before is a prefix of the content after.
C24_AppendOnly ==
    [][CaptureStep =>
          /\ (cap'.err = "" /\ logFile' # logFile)
                => /\ logFile'.data = logFile.data \o Entry(now, TreeDiff)
                   /\ cap'.diff = TreeDiff
          /\ IsPrefix(logFile.data, logFile'.data)
          /\ IsPrefix(logFile'.data, logFile.data \o Entry(now, TreeDiff))
          /\ logFile.exists => logFile'.exists]_vars

\* C24 witness: two captures at different times and of different diffs have
\* written; the log is the first entry followed by the second.
C24_Witness ==
    /\ cap.calls = 2 /\ cap.err = "" /\ cap.diff # <<>>
    /\ \E t \in Times, d \in {gitDiffHead({"a.go"}), gitDiffHead({"b.go"}),
                             gitDiffHead({"a.go", "b.go"})} :
          /\ t # now /\ d # cap.diff
          /\ logFile.data = Entry(t, d) \o Entry(now, cap.diff)

\* C25: the read-modify-write of the state file by an offline command never
\* overlaps a period in which a daemon has loaded the registry.  It fails:
\* the command takes the offline path when its dial is refused, nothing
\* keeps a daemon from starting between that dial and the saveState of the
\* command, and the daemon then runs with a registry loaded before the save.
C25_OfflineExcludesDaemon ==
    ~(client.pc \in {"load", "apply"} /\ Running(DaemonPid))

\* the scheduler is at an access to s.prevDiffs: the reset at the date
\* boundary, the read before a capture, the write after it
SchedAtMap ==
    \/ sched.pc = "date" /\ sched.today # lastDate
    \/ sched.pc \in {"mapread", "mapwrite"}

\* C26: no access of the scheduler to the dedup map overlaps the deletion
\* from the map by an unwatch handler.  It fails: takeSnapshots holds the lock
\* only while it copies the registry, and reads, writes and resets the map
\* with no lock held, so the write lock of handleUnwatch excludes nothing.
C26_DedupExclusive ==
    \A c \in Conns : conn[c].pc = "delete" => ~SchedAtMap

\* the handler of connection c holds a request it has not answered
InFlight(c) == conn[c].pc \notin {"idle", "await", "done"}

\* C27: when shutdown is triggered while a handler processes a request, the
\* handler completes before the process is gone: its change to the registry
\* is persisted and its response written.  It fails: run() returns from its
\* select without waiting for the goroutines of handleConn.
C27_HandlersFinish ==
    (ShutdownRequested /\ proc[DaemonPid].pc = "exited")
        => \A c \in DaemonConns : ~InFlight(c)

\* the entries registered at startup that an unwatch, now answered, has
\* removed from the registry
Unwatched ==
    {e \in Range(initWatched) :
        /\ e.path \notin PathsOf(watched)
        /\ \E c \in Conns : conn[c].outcome = "removed" /\ conn[c].sent}

LogsOf(name) == {resolveGitPath(Dates[d], name) : d \in 1 .. Len(Dates)}

C29_MarkerOfRunningDaemon == \A q \in Procs : Running(q) => pidFile = q

\* C30: a start attempt that detects a running daemon, by a live process id
\* in the PID file or by an answered dial of the socket, returns without
\* entering Running and leaves the PID file, the socket file and the state
\* file as they were.
C30_DetectionChangesNothing ==
    [][\A q \in Procs :
          (proc[q].pc \in {"checkpid", "already"} /\ proc'[q].pc = "exited")
              => /\ pidFile' = pidFile /\ sockFile' = sockFile
                 /\ stateFile' = stateFile /\ watched' = watched]_vars

\* C31: the scheduler holds the read lock only between RLock and the end of
\* the copy of the registry, never while takeSnapshot runs; a handler that
\* waits for the lock during a capture can take it, whether it asks for the
\* write lock (watch, unwatch) or the read lock (status).
C31_LockOnlyWhileCopying ==
    /\ SchedId \in mu.readers <=> sched.pc = "copy"
    /\ sched.pc \in {"mapread", "capture", "mapwrite"} =>
          \A c \in DaemonConns :
              /\ conn[c].pc = "lock" => ENABLED Lock(c)
              /\ conn[c].pc = "rlock" => ENABLED statusRLock(c)

\* C31 witness: a capture is in progress and the response to an unwatch
\* has been sent.
C31_Witness ==
    /\ sched.pc = "capture" /\ repoDiff[sched.repos[sched.i].path] # <<>>
    /\ \E c \in DaemonConns :
          conn[c].pc = "done" /\ conn[c].sent /\ conn[c].outcome = "removed"

\* a step of the scheduler goroutine
SchedulerStep ==
    StallScheduler /\ UNCHANGED <<req, capVars, saveVars, cliVars, runVars>>

\* C32: when git never returns during the capture of one repository, only
\* that capture is stalled: the scheduler goes on to the other entries of
\* the firing and to later firings.
C32_HangStallsOneRepository == sched.pc = "hung" => ENABLED SchedulerStep

\* C33: a connection whose client has sent no line holds no lock, and while
\* it waits another connection can be accepted, the handler of another
\* connection can take its next step unless the scheduler is copying the
\* registry, and the scheduler can take its next step unless a handler holds
\* the write lock, its git hangs or its firings are over.
C33_SilentClientBlocksNobody ==
    \A c \in Conns :
        conn[c].pc = "await" =>
            /\ mu.writer # c /\ c \notin mu.readers
            /\ \A d \in Conns \ {c} :
                  /\ conn[d].pc = "idle"
                        => ENABLED (Listening(DaemonPid) /\ Accept(d))
                  /\ conn[d].pc \notin {"idle", "await", "done"}
                        => ENABLED Handle(d) \/ SchedId \in mu.readers
            /\ (sched.pc \notin {"hung", "wait"} \/ sched.firings < MaxFirings)
                  => ENABLED SchedulerStep \/ sched.pc = "hung" \/ mu.writer # 0

\* C33 witness: connection 1 is silent, connection 2 has its answer to a
\* status request, and the scheduler is in a capture of its second firing.
C33_Witness ==
    /\ conn[1].pc = "await"
    /\ conn[2].pc = "done" /\ conn[2].sent /\ conn[2].outcome = "status"
    /\ sched.pc = "capture" /\ sched.firings = MaxFirings

\* the step in which the handler of connection c returns a response
Returns(c) == conn[c].pc # "respond" /\ conn'[c].pc = "respond"

\* C34: the step that returns a response with ok false is taken before the
\* handler has changed anything (from the dispatch, or from the checks made
\* under the lock) and changes neither the registry, the state file, the
\* dedup map nor the life of the process; it leaves no lock held by the
\* handler, whose response can then be written; a handler that has changed
\* the registry returns ok true.
C34_ErrorChangesNothing ==
    [][\A c \in DaemonConns :
          Returns(c) =>
              IF conn'[c].resp.ok
              THEN conn'[c].resp.error = NoError
              ELSE /\ conn[c].pc \in {"await", "locked"}
                   /\ watched' = watched /\ stateFile' = stateFile
                   /\ prevDiffs' = prevDiffs /\ lastDate' = lastDate
                   /\ proc' = proc /\ pidFile' = pidFile /\ sockFile' = sockFile
                   /\ timer' = timer
                   /\ mu'.writer # c /\ c \notin mu'.readers
                   /\ conn'[c].resp.data = NoData]_vars

\* C34 witness: each kind of refusal has just been returned to a client of
\* the running daemon; here the name collision.
C34_Witness ==
    \E c \in DaemonConns :
        /\ conn[c].pc = "respond" /\ ~conn[c].resp.ok
        /\ conn[c].outcome = "conflict"
        /\ Running(DaemonPid)

\* C35: once s.cancel() has been called the scheduler begins no further
\* firing of takeSnapshots.
C35_NoFiringAfterCancel ==
    [][proc[DaemonPid].done => ~(sched.pc = "wait" /\ sched'.pc = "date")]_vars

\* a step in which takeSnapshot is called for the current entry of the copy
CaptureOf(p) ==
    /\ sched.pc = "capture" /\ sched'.pc # "capture"
    /\ sched.repos[sched.i].path = p

Delimiter == Header(EarlierTime)[1]

\* the position of the next delimiter at or after j, or the end of the log
RECURSIVE NextEntry(_, _)
NextEntry(data, j) ==
    IF j > Len(data) \/ data[j] = Delimiter THEN j ELSE NextEntry(data, j + 1)

\* the diff texts of the complete entries of a log, in order: an entry is a
\* delimiter line, a diff and a blank line; what a failed write left is none
RECURSIVE EntryTexts(_, _)
EntryTexts(data, i) ==
    IF i > Len(data) THEN <<>>
    ELSE LET j == NextEntry(data, i + 1)
             piece == SubSeq(data, i, j - 1)
             n == Len(piece)
             whole == /\ n > Len(Header(EarlierTime)) + 1
                      /\ piece[1] = Delimiter
                      /\ piece[n] = "\n" /\ piece[n - 1] = "\n"
         IN  (IF whole
              THEN <<SubSeq(piece, Len(Header(EarlierTime)) + 1, n - 1)>>
              ELSE <<>>) \o EntryTexts(data, j)

\* the log of the day for /a/x
LogOfX == logs[resolveGitPath(Dates[1], "x")]

\* C37: after a restart on the same day, with the uncommitted state of /a/x
\* unchanged, the log of /a/x gets at most one entry more, which repeats the
\* last one; once that entry is written and recorded no firing changes the
\* log; and what the earlier daemon wrote stays at the head of the log.
C37_OneDuplicateAfterRestart ==
    [][LET D == repoDiff[<<"a", "x">>]
           before == EntryTexts(LogOfX.data, 1)
           after == EntryTexts(LogOfX'.data, 1)
       IN  /\ Len(after) \in {1, 2}
           /\ \A i \in 1 .. Len(after) : after[i] = D
           /\ IsPrefix(LeftLog(D).data, LogOfX'.data)
           /\ (prevDiffs[<<"a", "x">>] = D \/ Len(before) = 2) => LogOfX' = LogOfX
      ]_vars

\* C37 witness: the duplicate has been written in the first firing and the
\* second firing has gone past /a/x.
C37_Witness ==
    /\ EntryTexts(LogOfX.data, 1) = <<repoDiff[<<"a", "x">>], repoDiff[<<"a", "x">>]>>
    /\ sched.firings = 2 /\ sched.pc = "next" /\ sched.i = 2
    /\ sched.diff = repoDiff[<<"a", "x">>]

\* no two neighbours of a sequence are equal
NoRepeat(s) == \A i \in 1 .. Len(s) - 1 : s[i] # s[i + 1]

\* C38: in one run of the daemon, for the repositories registered all along,
\* no log of a day holds two consecutive entries with the same diff text.
C38_NoRepeatedEntry ==
    \A f \in LogPaths : NoRepeat(EntryTexts(logs[f].data, 1))

\* C38 witness: the second firing has found in /a/x the diff that the first
\* had written and recorded, and has written nothing.
C38_Witness ==
    /\ sched.firings = 2 /\ sched.pc = "next" /\ sched.i = 2
    /\ repoDiff[<<"a", "x">>] # <<>>
    /\ sched.prevDiff = repoDiff[<<"a", "x">>]
    /\ sched.diff = repoDiff[<<"a", "x">>]
    /\ EntryTexts(LogOfX.data, 1) = <<repoDiff[<<"a", "x">>]>>

\* the name under which the registry holds path p
StoredName(reg, p) == reg[FindPath(reg, p)].name

RegFile(reg) == IF reg = <<>> THEN NoFile ELSE FileOf(Marshal(reg))

\* C40: for every registry and every request, the step of watchOffline or
\* unwatchOffline on the registry as read writes to the state file what the
\* handler of the daemon has written, or leaves it alone where the handler
\* did; the command fails with a name conflict exactly when the handler
\* refused with one, and unless the disk is full it ends as the handler did.
C40_OfflineMatchesDaemon ==
    [][(client.pc = "apply" /\ client'.pc = "idle")
          => /\ stateFile' = stateFile
             /\ (client'.out = "conflict") <=> (conn[1].outcome = "conflict")
             /\ (client'.out = "conflict") => stateFile' = RegFile(initWatched)
             /\ ~diskFull => /\ client'.out = conn[1].outcome
                             /\ loadState(stateFile').watched = watched
             /\ diskFull => stateFile' = RegFile(initWatched)]_vars

\* C40 witness: command and handler have both added the repository to a
\* registry of one entry, and the state file holds the two entries.
C40_Witness ==
    /\ client.out = "added" /\ conn[1].outcome = "added" /\ conn[1].sent
    /\ Len(initWatched) = 1 /\ Len(watched) = 2
    /\ stateFile = FileOf(Marshal(watched))

====
